---- MODULE Spec2Model ----
(***************************************************************************)
(* A11y Form Validator: the Designer extension (scan / apply / remove of   *)
(* validation annotations, src/index.js) and the client validation runtime *)
(* shipped to published pages (src/unnamed/part_000, src/unnamed/part_001  *)
(* and the page-level script generated by src/index.js).                   *)
(*                                                                         *)
(* Several specifications share the variables:                             *)
(*   SpecRuntime  the client runtime on one published form                  *)
(*   Spec         the extension's handlers on one Designer page             *)
(*   SpecLimit    the same handlers on a site close to its form limit       *)
(*   SpecPlans    the same handlers for a user on a paid plan                *)
(*   SpecOverlap  handler runs that overlap at their awaits                 *)
(*   SpecResolve  field resolution (scan) over generated document trees     *)
(*   SpecLabels   the label classifier and normaliser                       *)
(* A specification pins the variables of the other parts to their initial  *)
(* values.                                                                 *)
(***************************************************************************)
EXTENDS Integers, Sequences, FiniteSets, TLC

VARIABLES
    \* ---- client runtime (published page) ----
    script,        \* which runtime build the page loads
    rtDom,         \* field -> [tag, attrs, labelText]: the rendered field elements
    rtValue,       \* field -> current value
    rtTouched,     \* field -> dataset.touched / data-has-interacted
    errorEls,      \* error element id -> [display, msg, label]
    lastSubmit,    \* outcome of the most recent submit event
    rtHist,        \* history for the claims: the events the fields received
    \* ---- Designer extension ----
    attrs,         \* node -> custom attributes (key -> value)
    hostRequired,  \* node -> native "required" setting of the field
    validationStates, \* form id -> in-memory validation state
    scannedForms,  \* result of the last scan
    db,            \* persistence service: form ids with a stored validation state
    count,         \* validatedFormsCount of the extension settings
    now,           \* wall clock (abstract ticks)
    hist,          \* history for the claims: snapshots taken by the handlers
    tasks,         \* the handler runs in flight, each with the step it has reached
    currentPlan,   \* the plan tier of the user
    \* ---- field resolution ----
    tree,          \* the page of the resolution scenarios: its elements in document order
    resolved,      \* result of resolving the fields of every form of tree
    \* ---- field classifier ----
    labelRun       \* a label and what the classifier functions return for it

rtVars == <<script, rtDom, rtValue, rtTouched, errorEls, lastSubmit, rtHist>>
extVars == <<attrs, hostRequired, validationStates, scannedForms, db, count, now, hist,
             tasks, currentPlan>>
resVars == <<tree, resolved>>
lblVars == <<labelRun>>
vars == <<script, rtDom, rtValue, rtTouched, errorEls, lastSubmit, rtHist,
          attrs, hostRequired, validationStates, scannedForms, db, count, now, hist,
          tasks, currentPlan, tree, resolved, labelRun>>

(***************************************************************************)
(* Strings. TLC treats a string as a sequence of characters: Len, SubSeq   *)
(* and \o apply.                                                           *)
(***************************************************************************)
CharAt(s, i) == SubSeq(s, i, i)

\* String.prototype.includes
Includes(s, sub) ==
    \E i \in 1..(Len(s) - Len(sub) + 1) : SubSeq(s, i, i + Len(sub) - 1) = sub

\* String.prototype.startsWith
StartsWith(s, pre) == Len(s) >= Len(pre) /\ SubSeq(s, 1, Len(pre)) = pre

\* the regular-expression class \s, over the characters the model uses
IsSpace(c) == c \in {" ", "\t", "\n"}

IsDigit(c) == c \in {"0", "1", "2", "3", "4", "5", "6", "7", "8", "9"}

LowerAlphabet == "abcdefghijklmnopqrstuvwxyz"
UpperAlphabet == "ABCDEFGHIJKLMNOPQRSTUVWXYZ"

IsLower(c) == \E i \in 1..26 : CharAt(LowerAlphabet, i) = c
IsUpper(c) == \E i \in 1..26 : CharAt(UpperAlphabet, i) = c

LowerChar(c) ==
    IF IsUpper(c)
    THEN CharAt(LowerAlphabet, CHOOSE i \in 1..26 : CharAt(UpperAlphabet, i) = c)
    ELSE c

UpperChar(c) ==
    IF IsLower(c)
    THEN CharAt(UpperAlphabet, CHOOSE i \in 1..26 : CharAt(LowerAlphabet, i) = c)
    ELSE c

RECURSIVE ToLowerCase(_)
\* String.prototype.toLowerCase
ToLowerCase(s) ==
    IF s = "" THEN "" ELSE LowerChar(CharAt(s, 1)) \o ToLowerCase(SubSeq(s, 2, Len(s)))

RECURSIVE TrimStart(_)
TrimStart(s) ==
    IF s # "" /\ IsSpace(CharAt(s, 1)) THEN TrimStart(SubSeq(s, 2, Len(s))) ELSE s

RECURSIVE TrimEnd(_)
TrimEnd(s) ==
    IF s # "" /\ IsSpace(CharAt(s, Len(s))) THEN TrimEnd(SubSeq(s, 1, Len(s) - 1)) ELSE s

\* String.prototype.trim
Trim(s) == TrimEnd(TrimStart(s))

RECURSIVE RemoveChars(_, _)
\* s.replace(/[<set>]/g, '')
RemoveChars(s, set) ==
    IF s = "" THEN ""
    ELSE (IF CharAt(s, 1) \in set THEN "" ELSE CharAt(s, 1))
         \o RemoveChars(SubSeq(s, 2, Len(s)), set)

AllChars(s, P(_)) == \A i \in 1..Len(s) : P(CharAt(s, i))


(***************************************************************************)
(* Attribute maps: a function from the keys present to their values.       *)
(***************************************************************************)
NoAttrs == <<>>

Has(a, k) == k \in DOMAIN a

Get(a, k) == IF k \in DOMAIN a THEN a[k] ELSE ""

Put(a, k, v) == [x \in (DOMAIN a) \cup {k} |-> IF x = k THEN v ELSE a[x]]

Del(a, k) == [x \in (DOMAIN a) \ {k} |-> a[x]]

(***************************************************************************)
(*                         CLIENT VALIDATION RUNTIME                       *)
(***************************************************************************)

\* the four runtime builds of the repository
RtScripts == {"v1.0.2", "v1.0.30", "database", "page"}

RtFields == {"f1", "f2"}

\* document order of the fields of the form (querySelectorAll)
RtFieldOrder == <<"f1", "f2">>

\* values a user can type
RtValues == {"", " ", "x", "user@example.com", "not-an-email", "+1 (555) 123-4567",
             "12345", "https://a.co"}

\* Rendered field elements. The annotated ones carry what the extension writes
\* on a required field (applyEnhancedFieldValidation); the type attribute is the
\* host's input-type setting.
AnnotatedAttrs(name, label) ==
    "name" :> name @@ "required" :> "required" @@
    "data-needs-error-container" :> "true" @@
    "data-error-id" :> (label \o "-error") @@ "data-field-label" :> label @@
    "data-proper-field-id" :> label @@ "data-auto-error-messaging" :> "true"

KindName == [tag |-> "input", labelText |-> "Full Name",
             attrs |-> AnnotatedAttrs("Full-Name", "full-name")]
KindEmail == [tag |-> "input", labelText |-> "Work Email",
              attrs |-> AnnotatedAttrs("Work-Email", "work-email") @@ "type" :> "email"]
KindTel == [tag |-> "input", labelText |-> "",
            attrs |-> AnnotatedAttrs("Phone", "phone") @@ "type" :> "tel"]
KindUrl == [tag |-> "input", labelText |-> "Website",
            attrs |-> AnnotatedAttrs("Website", "website") @@ "type" :> "url"]
KindMessage == [tag |-> "textarea", labelText |-> "Message",
                attrs |-> AnnotatedAttrs("Message", "message")]
\* a field the host made required and the extension never annotated
KindHostRequired == [tag |-> "input", labelText |-> "Age",
                     attrs |-> "name" :> "age" @@ "required" :> ""]
\* a custom widget the extension annotated: aria-required="true" in place of
\* the required attribute
KindAriaRequired == [tag |-> "input", labelText |-> "Company",
                     attrs |-> Del(AnnotatedAttrs("Company", "company"), "required")
                               @@ "aria-required" :> "true"]
\* an optional field without any annotation
KindOptional == [tag |-> "input", labelText |-> "Nickname", attrs |-> "name" :> "nick"]

\* the published pages of the model: one form of two fields each
RtPages == {
    "f1" :> KindName @@ "f2" :> KindEmail,
    "f1" :> KindTel @@ "f2" :> KindHostRequired,
    "f1" :> KindUrl @@ "f2" :> KindMessage,
    "f1" :> KindEmail @@ "f2" :> KindOptional,
    "f1" :> KindAriaRequired @@ "f2" :> KindOptional }

\* HTMLInputElement.type / HTMLTextAreaElement.type
RtType(el) ==
    IF el.tag = "textarea" THEN "textarea"
    ELSE IF Has(el.attrs, "type") /\ el.attrs["type"] \in {"email", "tel", "url"}
         THEN el.attrs["type"] ELSE "text"

\* /^[^\s@]+@[^\s@]+\.[^\s@]+$/
EmailRegex(v) ==
    /\ \A k \in 1..Len(v) : ~IsSpace(CharAt(v, k))
    /\ \E i \in 2..Len(v) :
        /\ CharAt(v, i) = "@"
        /\ \A k \in 1..Len(v) : CharAt(v, k) = "@" => k = i
        /\ \E j \in (i + 2)..(Len(v) - 1) : CharAt(v, j) = "."

IsPhoneChar(c) == IsDigit(c) \/ IsSpace(c) \/ c \in {"-", "(", ")", "+"}

\* /^[0-9\s\-\(\)\+]{10,}$/
PhoneRegexStrict(v) == Len(v) >= 10 /\ AllChars(v, IsPhoneChar)

\* the pattern attribute apply writes on a phone field, [0-9\s\-\(\)\+]{10,}:
\* the whole value has to match it
PhonePatternAccepts(v) == Len(v) >= 10 /\ AllChars(v, IsPhoneChar)

\* /^[\+]?[1-9][\d]{0,15}$/ on the value without [\s\-\(\)\.]
PhoneRegexLoose(v) ==
    LET clean == RemoveChars(v, {" ", "\t", "\n", "-", "(", ")", "."})
        body == IF clean # "" /\ CharAt(clean, 1) = "+"
                THEN SubSeq(clean, 2, Len(clean)) ELSE clean
    IN /\ Len(body) \in 1..16
       /\ CharAt(body, 1) \in {"1", "2", "3", "4", "5", "6", "7", "8", "9"}
       /\ AllChars(body, IsDigit)

IsSchemeChar(c) == IsLower(c) \/ IsUpper(c) \/ IsDigit(c) \/ c \in {"+", "-", "."}

\* new URL(v) does not throw: v parses as an absolute URL (the platform's URL
\* parser: a scheme, and a host when the scheme is http or https)
UrlConstructible(v) ==
    LET t == Trim(v) IN
    \E i \in 2..Len(t) :
        /\ CharAt(t, i) = ":"
        /\ IsLower(CharAt(t, 1)) \/ IsUpper(CharAt(t, 1))
        /\ AllChars(SubSeq(t, 1, i - 1), IsSchemeChar)
        /\ LET scheme == ToLowerCase(SubSeq(t, 1, i - 1))
               rest == RemoveChars(SubSeq(t, i + 1, Len(t)), {"/", "\\"})
           IN scheme \in {"http", "https"} =>
                  rest # "" /\ ~(CharAt(rest, 1) \in {"?", "#", ":", " "})

IsWordChar(c) == IsLower(c) \/ IsUpper(c) \/ IsDigit(c) \/ c = "_"

RECURSIVE CapitalizeFrom(_, _)
\* s.replace(/\b\w/g, l => l.toUpperCase()), from position i on
CapitalizeFrom(s, i) ==
    IF i > Len(s) THEN ""
    ELSE (IF IsWordChar(CharAt(s, i)) /\ (i = 1 \/ ~IsWordChar(CharAt(s, i - 1)))
          THEN UpperChar(CharAt(s, i)) ELSE CharAt(s, i))
         \o CapitalizeFrom(s, i + 1)

RECURSIVE DashesToSpaces(_)
\* s.replace(/[-_]/g, ' ')
DashesToSpaces(s) ==
    IF s = "" THEN ""
    ELSE (IF CharAt(s, 1) \in {"-", "_"} THEN " " ELSE CharAt(s, 1))
         \o DashesToSpaces(SubSeq(s, 2, Len(s)))

\* what getFieldLabel derives from the label texts and names of the pages,
\* computed once per string
RtLabelFacts ==
    [t \in {page[f].labelText : page \in RtPages, f \in RtFields}
            \cup {Get(page[f].attrs, "name") : page \in RtPages, f \in RtFields} |->
        [trim |-> Trim(t), fromName |-> CapitalizeFrom(DashesToSpaces(t), 1)]]

\* getFieldLabel: label element, aria-label, data-field-label, name, fallback
GetFieldLabelFrom(el, ofText, ofName) ==
    IF ofText.trim # "" THEN ofText.trim
    ELSE IF Get(el.attrs, "aria-label") # "" THEN el.attrs["aria-label"]
    ELSE IF Get(el.attrs, "data-field-label") # "" THEN el.attrs["data-field-label"]
    ELSE IF Get(el.attrs, "name") # "" THEN ofName.fromName
    ELSE "This field"

GetFieldLabel(el) ==
    GetFieldLabelFrom(el, RtLabelFacts[el.labelText], RtLabelFacts[Get(el.attrs, "name")])

\* what the checks of validateField derive from a value, computed once per
\* string a field can report
ValueFacts ==
    [v \in RtValues \cup {Trim(t) : t \in RtValues} |->
        [trim |-> Trim(v), email |-> EmailRegex(v), url |-> UrlConstructible(v),
         phoneStrict |-> PhoneRegexStrict(v), phoneLoose |-> PhoneRegexLoose(v)]]

\* The checks of validateField in their order; the message of the last failing
\* check is the one shown. strictPhone: which of the two phone rules the build uses.
RuleChecksOn(el, v, facts, strictPhone) ==
    LET reqFail == Has(el.attrs, "required") /\ facts.trim = ""
        emailFail == RtType(el) = "email" /\ v # "" /\ ~facts.email
        telFail == RtType(el) = "tel" /\ v # ""
                   /\ ~(IF strictPhone THEN facts.phoneStrict ELSE facts.phoneLoose)
        urlFail == RtType(el) = "url" /\ v # "" /\ ~facts.url
    IN [valid |-> ~(reqFail \/ emailFail \/ telFail \/ urlFail),
        msg |-> IF urlFail THEN "url" ELSE IF telFail THEN "phone"
                ELSE IF emailFail THEN "email" ELSE IF reqFail THEN "required" ELSE ""]

RuleChecks(el, v, strictPhone) == RuleChecksOn(el, v, ValueFacts[v], strictPhone)

\* field.value: the value the element reports for what the user typed (an
\* email or url input reports it without leading and trailing whitespace)
FieldValue(el, typed) ==
    IF RtType(el) \in {"email", "url"} THEN ValueFacts[typed].trim ELSE typed

\* showError of v1.0.2 and of the page-level script: needs data-error-id
ShowError(el, msg, E) ==
    IF Get(el.attrs, "data-error-id") = "" THEN E
    ELSE Put(E, el.attrs["data-error-id"],
             [display |-> TRUE, msg |-> msg, label |-> GetFieldLabel(el)])

\* hideError of v1.0.2 and of the page-level script
HideError(el, E) ==
    IF Get(el.attrs, "data-error-id") = "" \/ ~Has(E, Get(el.attrs, "data-error-id")) THEN E
    ELSE [E EXCEPT ![el.attrs["data-error-id"]].display = FALSE]

RemoveAria(el) == [el EXCEPT !.attrs = Del(Del(@, "aria-invalid"), "aria-describedby")]

\* validateField, v1.0.2: show or hide the error element, the field is untouched
Outcome102(el, r, E) ==
    [valid |-> r.valid, el |-> el,
     E |-> IF r.valid THEN HideError(el, E) ELSE ShowError(el, r.msg, E)]

ValidateField102(el, typed, E) ==
    Outcome102(el, RuleChecks(el, FieldValue(el, typed), FALSE), E)

\* the fields v1.0.30 validates: allowed type and at least one validation attribute
IsValidated1030(el) ==
    /\ RtType(el) \in {"email", "tel", "url", "text", "textarea"}
    /\ \E k \in {"required", "data-field-label", "data-error-id",
                 "data-auto-error-messaging", "data-needs-error-container"} : Has(el.attrs, k)

\* a11y-error-${name}-${Date.now()}: the id v1.0.30 generates for a field without one
GeneratedErrorId(el) ==
    "a11y-error-" \o (IF Get(el.attrs, "name") # "" THEN el.attrs["name"] ELSE "field")

\* clearFieldError, v1.0.30
ClearFieldError1030(el, E) == [el |-> RemoveAria(el), E |-> HideError(el, E)]

\* validateField, v1.0.30: clear, check, show (showError also marks the field)
ShowError1030(el, c, r, id) ==
    [valid |-> FALSE,
     el |-> [c.el EXCEPT !.attrs =
                Put(Put(Put(@, "data-error-id", id), "aria-invalid", "true"),
                    "aria-describedby", id)],
     E |-> Put(c.E, id, [display |-> TRUE, msg |-> r.msg, label |-> GetFieldLabel(el)])]

Outcome1030(el, c, r) ==
    IF ~r.valid /\ r.msg # ""
    THEN ShowError1030(el, c, r,
             IF Get(c.el.attrs, "data-error-id") # "" THEN c.el.attrs["data-error-id"]
             ELSE GeneratedErrorId(c.el))
    ELSE [valid |-> r.valid, el |-> c.el, E |-> c.E]

ValidateField1030(el, typed, E) ==
    Outcome1030(el, ClearFieldError1030(el, E),
                RuleChecks(RemoveAria(el), FieldValue(el, typed), TRUE))

\* the fields the page-level script looks at
IsValidatedPage(el) ==
    \E k \in {"data-field-label", "data-error-id", "data-auto-error-messaging"} :
        Has(el.attrs, k)

\* validateField, page-level script
OutcomePage(el, r, E) ==
    LET id == Get(el.attrs, "data-error-id")
        withInvalid == [el EXCEPT !.attrs = Put(@, "aria-invalid", "true")]
    IN IF ~r.valid /\ r.msg # ""
       THEN [valid |-> FALSE,
             el |-> IF id = "" THEN withInvalid
                    ELSE [withInvalid EXCEPT !.attrs = Put(@, "aria-describedby", id)],
             E |-> ShowError(el, r.msg, E)]
       ELSE [valid |-> r.valid, el |-> RemoveAria(el), E |-> HideError(el, E)]

ValidateFieldPage(el, typed, E) ==
    OutcomePage(el, RuleChecks(el, FieldValue(el, typed), TRUE), E)

\* validateField(field, undefined), database build: the rules of form "undefined"
\* are looked up, none are found, and the field counts as valid
ValidateFieldDatabase(el, typed, E) == [valid |-> TRUE, el |-> el, E |-> E]

\* the fields a build validates and listens to
IsValidated(s, el) ==
    CASE s = "v1.0.30" -> IsValidated1030(el)
      [] s = "page" -> IsValidatedPage(el)
      [] OTHER -> TRUE

ValidateField(s, el, typed, E) ==
    CASE s = "v1.0.2" -> ValidateField102(el, typed, E)
      [] s = "v1.0.30" -> ValidateField1030(el, typed, E)
      [] s = "page" -> ValidateFieldPage(el, typed, E)
      [] OTHER -> ValidateFieldDatabase(el, typed, E)

\* validateForm takes the outcome r of field f into its result
FormResult(acc, f, r) ==
    [valid |-> acc.valid /\ r.valid, dom |-> [acc.dom EXCEPT ![f] = r.el], E |-> r.E]

RECURSIVE ValidateFormFrom(_, _, _, _, _)
\* validateForm: every validated field in document order, from position i on;
\* acc = [valid, dom, E]
ValidateFormFrom(s, i, acc, values, order) ==
    IF i > Len(order) THEN acc
    ELSE ValidateFormFrom(s, i + 1,
             IF IsValidated(s, acc.dom[order[i]])
             THEN FormResult(acc, order[i],
                      ValidateField(s, acc.dom[order[i]], values[order[i]], acc.E))
             ELSE acc,
             values, order)

ValidateForm(s, dom, values, E) ==
    ValidateFormFrom(s, 1, [valid |-> TRUE, dom |-> dom, E |-> E], values, RtFieldOrder)

\* 'use strict' (part_001 lines 13 and 742): reading arguments.callee throws a
\* TypeError, so the statements after it in the handler do not run
ArgumentsCalleeThrows == TRUE

\* initializeFormValidation: v1.0.30 gives every validated field a data-error-id
InitializeFormValidation(s, page) ==
    [f \in RtFields |->
        IF s = "v1.0.30" /\ IsValidated1030(page[f]) /\ Get(page[f].attrs, "data-error-id") = ""
        THEN [page[f] EXCEPT !.attrs = Put(@, "data-error-id", GeneratedErrorId(page[f]))]
        ELSE page[f]]

NoSubmit ==
    [fired |-> FALSE, valid |-> FALSE, ruleFail |-> FALSE, prevented |-> FALSE,
     sent |-> 0, threw |-> FALSE]

\* which phone rule a build uses
StrictPhone(s) == s \in {"v1.0.30", "page"}

\* some field the build validates fails a rule its attributes declare
SomeRuleFails(s, dom, values) ==
    \E f \in RtFields :
        /\ IsValidated(s, dom[f])
        /\ ~RuleChecks(dom[f], FieldValue(dom[f], values[f]), StrictPhone(s)).valid

\* the first field whose error element is displayed (v1.0.2 focuses it)
FirstErrorField(dom, E) ==
    LET shown == {i \in 1..Len(RtFieldOrder) :
                    LET id == Get(dom[RtFieldOrder[i]].attrs, "data-error-id")
                    IN Has(E, id) /\ E[id].display}
    IN IF shown = {} THEN {}
       ELSE {RtFieldOrder[CHOOSE i \in shown : \A j \in shown : i <= j]}

\* the variables of the other parts while the runtime runs
ExtIdle ==
    /\ attrs = <<>> /\ hostRequired = <<>> /\ validationStates = <<>>
    /\ scannedForms = <<>> /\ db = {} /\ count = 0 /\ now = 0 /\ hist = <<>>
    /\ tasks = <<>> /\ currentPlan = "STARTER"

ResIdle == tree = <<>> /\ resolved = <<>>

LblIdle == labelRun = <<>>

\* seen: the fields that received a focus or input event; checked: the fields
\* the most recent event was a blur of, or a submit of the form of
NoEvents == [seen |-> {}, checked |-> {}]

Interacted(f) == rtHist' = [seen |-> rtHist.seen \cup {f}, checked |-> {}]

RtInit ==
    /\ script \in RtScripts
    /\ \E page \in RtPages : rtDom = InitializeFormValidation(script, page)
    /\ rtValue = [f \in RtFields |-> ""]
    /\ rtTouched = [f \in RtFields |-> FALSE]
    /\ errorEls = <<>>
    /\ lastSubmit = NoSubmit
    /\ rtHist = NoEvents
    /\ ExtIdle /\ ResIdle /\ LblIdle

\* the field and the error elements as a listener leaves them
FieldOutcome(f, r) ==
    /\ rtDom' = [rtDom EXCEPT ![f] = r.el]
    /\ errorEls' = r.E

\* a validated field receives focus. Focus listener: v1.0.2 and the database
\* build mark the field touched, v1.0.30 clears the field's error; the
\* page-level script has none
RtFocus(f) ==
    /\ IsValidated(script, rtDom[f])
    /\ CASE script = "v1.0.30" ->
              /\ FieldOutcome(f, ClearFieldError1030(rtDom[f], errorEls))
              /\ UNCHANGED rtTouched
         [] script = "page" -> UNCHANGED <<rtDom, errorEls, rtTouched>>
         [] OTHER ->
              /\ rtTouched' = [rtTouched EXCEPT ![f] = TRUE]
              /\ UNCHANGED <<rtDom, errorEls>>
    /\ Interacted(f)
    /\ UNCHANGED <<script, rtValue, lastSubmit>>
    /\ UNCHANGED extVars /\ UNCHANGED resVars /\ UNCHANGED lblVars

\* the user changes the value; the input listener of the build runs
RtInput(f, v) ==
    /\ v # rtValue[f]
    /\ rtValue' = [rtValue EXCEPT ![f] = v]
    /\ CASE script \in {"v1.0.2", "database"} ->
              /\ IF rtTouched[f]
                 THEN FieldOutcome(f, ValidateField(script, rtDom[f], v, errorEls))
                 ELSE UNCHANGED <<rtDom, errorEls>>
              /\ UNCHANGED rtTouched
         [] script = "v1.0.30" ->
              /\ IF IsValidated1030(rtDom[f])
                 THEN FieldOutcome(f, ClearFieldError1030(rtDom[f], errorEls))
                 ELSE UNCHANGED <<rtDom, errorEls>>
              /\ UNCHANGED rtTouched
         [] OTHER ->
              /\ rtTouched' = IF IsValidatedPage(rtDom[f])
                              THEN [rtTouched EXCEPT ![f] = TRUE] ELSE rtTouched
              /\ errorEls' = IF IsValidatedPage(rtDom[f]) THEN HideError(rtDom[f], errorEls)
                             ELSE errorEls
              /\ UNCHANGED rtDom
    /\ Interacted(f)
    /\ UNCHANGED <<script, lastSubmit>>
    /\ UNCHANGED extVars /\ UNCHANGED resVars /\ UNCHANGED lblVars

\* blur listener: validate the field (the page-level script only after an input)
RtBlur(f) ==
    /\ IsValidated(script, rtDom[f])
    /\ IF script = "page" /\ ~rtTouched[f]
       THEN UNCHANGED <<rtDom, errorEls>>
       ELSE FieldOutcome(f, ValidateField(script, rtDom[f], rtValue[f], errorEls))
    /\ rtHist' = [rtHist EXCEPT !.checked = {f}]
    /\ UNCHANGED <<script, rtValue, rtTouched, lastSubmit>>
    /\ UNCHANGED extVars /\ UNCHANGED resVars /\ UNCHANGED lblVars

\* what the submit listener does with the result r of validateForm
SubmitOutcome(r, ruleFail) ==
    LET \* v1.0.30 and the database build: preventDefault first, then on a valid
        \* form removeEventListener(arguments.callee) and form.submit()
        resubmits == script \in {"v1.0.30", "database"}
        threw == resubmits /\ r.valid /\ ArgumentsCalleeThrows
        prevented == IF resubmits THEN TRUE ELSE ~r.valid
        sent == (IF prevented THEN 0 ELSE 1)
                + (IF resubmits /\ r.valid /\ ~threw THEN 1 ELSE 0)
    IN /\ rtDom' = r.dom
       /\ errorEls' = r.E
       /\ rtTouched' = IF script \in {"v1.0.2", "database"} /\ ~r.valid
                       THEN [f \in RtFields |->
                                rtTouched[f] \/ f \in FirstErrorField(r.dom, r.E)]
                       ELSE rtTouched
       /\ lastSubmit' = [fired |-> TRUE, valid |-> r.valid, ruleFail |-> ruleFail,
                         prevented |-> prevented, sent |-> sent, threw |-> threw]

\* the submit listener of the build, on one submit event
RtSubmit ==
    /\ SubmitOutcome(ValidateForm(script, rtDom, rtValue, errorEls),
                     SomeRuleFails(script, rtDom, rtValue))
    /\ rtHist' = [rtHist EXCEPT !.checked = RtFields]
    /\ UNCHANGED <<script, rtValue>>
    /\ UNCHANGED extVars /\ UNCHANGED resVars /\ UNCHANGED lblVars

RtNext ==
    \/ \E f \in RtFields : RtFocus(f)
    \/ \E f \in RtFields, v \in RtValues : RtInput(f, v)
    \/ \E f \in RtFields : RtBlur(f)
    \/ RtSubmit

SpecRuntime == RtInit /\ [][RtNext]_vars

(***************************************************************************)
(*                      FIELD RESOLUTION (handleScanPage)                  *)
(* A page is the sequence webflow.getAllElements() returns: the elements   *)
(* in document order, each [id, type, parent, label, name] with parent the *)
(* position of the parent element (0 for the page body).                   *)
(***************************************************************************)

\* child.getChildren(): positions of the children of element i
ChildrenOf(page, i) == {j \in 1..Len(page) : page[j].parent = i}

\* the wrapper types with the branches for "DOM" taken out
WrapperTypesWithoutDOM == {"VFlex", "HFlex", "Container", "Block"}

\* the wrapper types searched one and two levels below a form
WrapperTypes == {"VFlex", "HFlex", "Container", "Block", "DOM"}

\* getChildren() of element i fails: the element carries the mark "throws" on
\* the pages where the host call fails
GetChildrenThrows(page, i) == "throws" \in DOMAIN page[i]

\* the search of Method 1 below the child c of a form: a child or grandchild
\* of a wrapper, or a child of a DOMElement. A failing getChildren() of a
\* wrapper or of a wrapper's child is caught and that element passed over.
FoundBelow(page, c, x) ==
    /\ ~GetChildrenThrows(page, c)
    /\ \/ /\ page[c].type \in WrapperTypes
          /\ \/ page[x].parent = c
             \/ \E g \in ChildrenOf(page, c) :
                   /\ page[g].type \in WrapperTypes
                   /\ ~GetChildrenThrows(page, g)
                   /\ page[x].parent = g
       \/ page[c].type = "DOMElement" /\ page[x].parent = c

\* getChildren() of a DOMElement child is called outside the inner try blocks:
\* its failure ends Method 1 for this field
EndsSearch(page, c) == page[c].type = "DOMElement" /\ GetChildrenThrows(page, c)

\* Method 1 of the scan: x is a child of form f, or is found below a child of
\* f that the loop over the children reaches
BelongsStructurally(page, f, x) ==
    /\ ~GetChildrenThrows(page, f)
    /\ \/ page[x].parent = f
       \/ \E c \in ChildrenOf(page, f) :
             /\ FoundBelow(page, c, x)
             /\ \A b \in ChildrenOf(page, f) : b < c => ~EndsSearch(page, b)

\* Method 2 of the scan: x comes after form f and before the next FormForm.
\* f is located with allElements.findIndex(el => el.id === formElementId): the
\* ids are objects ({component, element}) of two getAllElements() calls, so the
\* form is found only if the host hands out the same id objects on every call
\* (sameIds); otherwise findIndex returns -1 and the method assigns nothing.
BelongsPositionally(page, f, x, sameIds) ==
    /\ sameIds
    /\ x > f
    /\ \A n \in (f + 1)..Len(page) : page[n].type = "FormForm" => x < n

\* the label the scan extracts for an element
ScanLabel(el) == IF el.label # "" THEN el.label ELSE el.name

\* the relevance filter of the scan on the lower-cased, trimmed label
IsRelevantField(label) ==
    \E k \in {"name", "email", "phone", "url", "website", "tel", "mobile", "cell",
              "message", "comment", "description", "notes", "feedback", "inquiry"} :
        Includes(Trim(ToLowerCase(label)), k)

\* isLikelyEmailField: every keyword of the list contains "mail"
IsLikelyEmailField(label) == Includes(Trim(ToLowerCase(label)), "mail")

\* isLikelyPhoneField (keywords containing another keyword of the list left out)
IsLikelyPhoneField(label) ==
    \E k \in {"phone", "tel", "mobile", "cell", "emergency contact", "contact number",
              "landline", "land line", "work number", "home number", "extension",
              "fax", "facsimile", "toll free", "toll-free"} :
        Includes(Trim(ToLowerCase(label)), k)

\* isLikelyUrlField (keywords containing another keyword of the list left out)
IsLikelyUrlField(label) ==
    \E k \in {"url", "website", "web site", "webpage", "web page", "link", "homepage",
              "home page", "site", "domain", "web address", "portfolio", "profile",
              "social media", "twitter", "facebook", "instagram", "github", "gitlab",
              "bitbucket", "codepen", "blog", "newsletter", "landing page", "api",
              "webhook"} :
        Includes(Trim(ToLowerCase(label)), k)

\* the field type the scan determines from the label; "" when none matches
ScanFieldType(label) ==
    IF IsLikelyEmailField(label) THEN "email"
    ELSE IF IsLikelyPhoneField(label) THEN "phone"
    ELSE IF IsLikelyUrlField(label) THEN "url"
    ELSE IF Includes(Trim(ToLowerCase(label)), "name") THEN "plain"
    ELSE IF \E k \in {"message", "comment", "description", "notes", "feedback", "inquiry"} :
               Includes(Trim(ToLowerCase(label)), k) THEN "message"
    ELSE ""

RECURSIVE CollapseSeparators(_, _)
\* s.replace(/[\s\-_]+/g, '-'), from position i on
CollapseSeparators(s, i) ==
    IF i > Len(s) THEN ""
    ELSE LET sep(c) == IsSpace(c) \/ c \in {"-", "_"}
         IN (IF ~sep(CharAt(s, i)) THEN CharAt(s, i)
             ELSE IF i > 1 /\ sep(CharAt(s, i - 1)) THEN "" ELSE "-")
            \o CollapseSeparators(s, i + 1)

RECURSIVE KeepIdChars(_)
\* s.replace(/[^a-z0-9\-]/g, '')
KeepIdChars(s) ==
    IF s = "" THEN ""
    ELSE (IF IsLower(CharAt(s, 1)) \/ IsDigit(CharAt(s, 1)) \/ CharAt(s, 1) = "-"
          THEN CharAt(s, 1) ELSE "")
         \o KeepIdChars(SubSeq(s, 2, Len(s)))

RECURSIVE TrimHyphens(_)
\* s.replace(/^-+|-+$/g, '')
TrimHyphens(s) ==
    IF s # "" /\ CharAt(s, 1) = "-" THEN TrimHyphens(SubSeq(s, 2, Len(s)))
    ELSE IF s # "" /\ CharAt(s, Len(s)) = "-" THEN TrimHyphens(SubSeq(s, 1, Len(s) - 1))
    ELSE s

\* the label normalisation of getProperFieldId and setupCustomCodeErrorMessaging
NormalizeLabel(s) == TrimHyphens(KeepIdChars(CollapseSeparators(ToLowerCase(s), 1)))

\* getAutocompleteValue; "" for null (keywords containing an earlier keyword of
\* the chain left out: they cannot decide)
GetAutocompleteValue(label) ==
    LET l == Trim(ToLowerCase(label))
        any(K) == \E k \in K : Includes(l, k)
    IN IF label = "" THEN ""
       ELSE IF any({"message", "comment", "description", "notes", "feedback", "inquiry",
                    "question", "details", "content", "body", "text", "story", "narrative",
                    "explanation", "reason", "additional information", "other", "remarks"})
            THEN "off"
       ELSE IF any({"name"}) THEN "name"
       ELSE IF any({"middle initial"}) THEN "additional-name"
       ELSE IF IsLikelyEmailField(label) THEN "email"
       ELSE IF IsLikelyPhoneField(label) THEN "tel"
       ELSE IF IsLikelyUrlField(label) THEN "url"
       ELSE IF any({"address", "street"}) THEN "street-address"
       ELSE IF any({"city", "town", "municipality", "locality", "urban area"})
            THEN "address-level2"
       ELSE IF any({"state", "province", "region", "territory", "county", "district",
                    "prefecture", "canton"}) THEN "address-level1"
       ELSE IF any({"zip", "postal", "postcode", "pin code", "pincode"}) THEN "postal-code"
       ELSE IF any({"country", "nation", "citizenship"}) THEN "country"
       ELSE IF any({"company", "org", "employer", "business", "corporation", "firm",
                    "enterprise", "institution", "agency", "association", "society",
                    "workplace", "office"}) THEN "organization"
       ELSE IF any({"job title", "jobtitle", "position", "role", "title", "occupation",
                    "profession", "career", "designation", "rank", "level"})
            THEN "organization-title"
       ELSE IF any({"birth", "dob", "born", "age"}) THEN "bday"
       ELSE IF any({"login", "handle", "alias", "user", "account"}) THEN "username"
       ELSE IF any({"pass", "pwd", "secret", "pin", "security code", "access code"})
            THEN "current-password"
       ELSE ""

\* the labels and names of the pages of the model
Labels == {"", "Email Address", "Email", "Full Name", "Name", "Message", "Phone",
           "Company Size", "Contact", "Feedback", "Work Email", "Comments"}

\* what the scan and apply derive from a label or name, computed once per string
LabelFacts ==
    [l \in Labels |->
        [relevant |-> IsRelevantField(l), fieldType |-> ScanFieldType(l),
         autocomplete |-> GetAutocompleteValue(l), normalized |-> NormalizeLabel(l),
         email |-> IsLikelyEmailField(l), phone |-> IsLikelyPhoneField(l),
         url |-> IsLikelyUrlField(l)]]

\* the relevance filter and the type determination keep the field
KeepsField(facts) == facts.relevant /\ facts.fieldType # ""

\* one push per strategy that reaches the element
PushesPerStrategy(page, f, x, sameIds) ==
    (IF BelongsStructurally(page, f, x) THEN 1 ELSE 0)
    + (IF BelongsPositionally(page, f, x, sameIds) THEN 1 ELSE 0)

\* The number of times the scan of form f pushes element x: the flag
\* belongsToThisForm is set by Method 1, Method 2 is tried only while the flag
\* is unset, and a set flag leads to one push.
PushesFor(page, f, x, sameIds) ==
    IF BelongsStructurally(page, f, x) THEN 1
    ELSE IF BelongsPositionally(page, f, x, sameIds) THEN 1 ELSE 0

\* isRequired of the scan: true to begin with, replaced by the answer of
\* getRequired(); when the call throws (id in fails) the catch block leaves it
GetRequired(req, fails, id) == IF id \in fails THEN TRUE ELSE req[id]

\* the elements of the page the scan keeps as fields of form f, by position
FieldPositions(page, req, f, sameIds) ==
    {x \in 1..Len(page) :
        /\ page[x].type \in {"FormTextInput", "FormTextarea"}
        /\ PushesFor(page, f, x, sameIds) > 0
        /\ KeepsField(LabelFacts[ScanLabel(page[x])])
        /\ req[page[x].id]}

RECURSIVE SeqOfSet(_)
\* a set of positions as the increasing sequence (the scan walks allElements in order)
SeqOfSet(S) ==
    IF S = {} THEN <<>>
    ELSE LET m == CHOOSE x \in S : \A y \in S : x <= y IN <<m>> \o SeqOfSet(S \ {m})

\* cleanType = elementType.replace(/^Form/, '')
CleanType(t) == IF StartsWith(t, "Form") THEN SubSeq(t, 5, Len(t)) ELSE t

\* fieldInfo of an element with the given label
FieldInfoOf(el, label) ==
    [type |-> CleanType(el.type), fieldType |-> LabelFacts[label].fieldType,
     label |-> label, name |-> IF el.name # "" THEN el.name ELSE label,
     id |-> el.id, required |-> TRUE]

\* fieldInfo of the element at position x
FieldInfo(page, x) == FieldInfoOf(page[x], ScanLabel(page[x]))

RECURSIVE PushAll(_, _, _, _, _)
\* formFields.push(fieldInfo) for the kept elements xs from the i-th on
PushAll(page, f, sameIds, xs, i) ==
    IF i > Len(xs) THEN <<>>
    ELSE [k \in 1..PushesFor(page, f, xs[i], sameIds) |-> FieldInfo(page, xs[i])]
         \o PushAll(page, f, sameIds, xs, i + 1)

\* the fields array the scan builds for form f (the fields property of the
\* form element, Method 1 of the field detection, is not part of the
\* Designer's FormForm element: the array comes from the element walk)
ResolveFields(page, req, f, sameIds) ==
    PushAll(page, f, sameIds, SeqOfSet(FieldPositions(page, req, f, sameIds)), 1)

\* positions of the FormForm elements, in document order
FormPositions(page) == SeqOfSet({i \in 1..Len(page) : page[i].type = "FormForm"})

(***************************************************************************)
(*                          DESIGNER EXTENSION                             *)
(***************************************************************************)

\* the page open in the Designer: two forms, their fields direct children
DesignerPage == <<
    [id |-> "form1", type |-> "FormForm", parent |-> 0, label |-> "", name |-> "Contact"],
    [id |-> "a", type |-> "FormTextInput", parent |-> 1, label |-> "Email Address",
     name |-> "Email"],
    [id |-> "b", type |-> "FormTextInput", parent |-> 1, label |-> "Full Name",
     name |-> "Name"],
    [id |-> "form2", type |-> "FormForm", parent |-> 0, label |-> "", name |-> "Feedback"],
    [id |-> "c", type |-> "FormTextarea", parent |-> 4, label |-> "Message",
     name |-> "Message"] >>

Nodes == {DesignerPage[i].id : i \in 1..Len(DesignerPage)}

NodeType(n) == DesignerPage[CHOOSE i \in 1..Len(DesignerPage) : DesignerPage[i].id = n].type

\* custom attributes the site's designer authored before the extension ran
HostAttrs ==
    "form1" :> <<>> @@ "a" :> <<>> @@
    "b" :> ("aria-describedby" :> "name-hint" @@ "data-max-length" :> "50") @@
    "form2" :> ("data-form-kind" :> "feedback") @@
    "c" :> ("aria-describedby" :> "message-hint")

\* starterPlanAttributes of cleanupExistingValidation
StarterPlanAttributes ==
    {"data-a11y-validator", "data-a11y-timestamp", "novalidate", "required",
     "aria-required", "aria-describedby", "type", "pattern", "autocomplete",
     "data-error-id", "data-needs-error-container", "data-error-container-type",
     "data-field-label", "data-proper-field-id", "data-embed-id", "data-embed-class",
     "data-embed-field-id", "data-embed-error-container-id",
     "data-error-container-class", "data-error-container-role",
     "data-error-container-aria-live", "data-error-container-aria-atomic"}

\* the "future-proof" test of cleanupExistingValidation on an attribute name
MatchesStarterKeyword(k) ==
    /\ StartsWith(k, "data-")
    /\ \E w \in {"error", "a11y", "validator", "validation", "required", "aria", "embed"} :
          Includes(ToLowerCase(k), w)
    /\ ~\E w \in {"length", "min", "max"} : Includes(ToLowerCase(k), w)

\* the attribute names cleanupExistingValidation removes, among those of the model
RemovableKeys ==
    {k \in StarterPlanAttributes \cup {"data-auto-error-messaging", "data-max-length",
                                       "data-form-kind"} :
        k \in StarterPlanAttributes \/ MatchesStarterKeyword(k)}

\* the (node, key) pairs of F that concern node n
FailKeys(F, n) == {p[2] : p \in {q \in F : q[1] = n}}

\* a cleanup that stops after the first attribute it removed
CleanupFirstKeyOnly(a, failKeys) ==
    IF {k \in DOMAIN a : k \in RemovableKeys /\ k \notin failKeys} = {} THEN a
    ELSE Del(a, CHOOSE k \in DOMAIN a : k \in RemovableKeys /\ k \notin failKeys)

\* cleanupExistingValidation on an attribute map; a removal that throws is skipped
CleanupExistingValidation(a, failKeys) ==
    [k \in {k \in DOMAIN a : k \notin RemovableKeys \/ k \in failKeys} |-> a[k]]

\* checkForValidationAttributes (its list has no "autocomplete")
CheckForValidationAttributes(a) ==
    (DOMAIN a) \cap (StarterPlanAttributes \ {"autocomplete"}) # {}

\* deepScanAndRemoveValidations: every form-related element of the page that
\* carries a validation attribute is cleaned
DeepScanAndRemoveValidations(A, remF) ==
    [n \in DOMAIN A |->
        IF /\ NodeType(n) \in {"FormTextInput", "FormTextarea", "FormSelect",
                               "FormCheckboxInput", "FormRadioInput", "FormForm",
                               "Embed", "HtmlEmbed", "FormEmbed"}
           /\ CheckForValidationAttributes(A[n])
        THEN CleanupExistingValidation(A[n], FailKeys(remF, n)) ELSE A[n]]

\* the element apply and remove work on for a scanned field; 0 when none. The
\* lookup by id passes the string form of the id object and matches nothing,
\* the element is then the first form field whose label or name is the label.
FindFieldElement(field) ==
    LET hits == {x \in 1..Len(DesignerPage) :
                    /\ DesignerPage[x].type \in {"FormTextInput", "FormTextarea",
                           "FormSelect", "FormCheckboxInput", "FormRadioInput"}
                    /\ \/ DesignerPage[x].label = field.label
                       \/ DesignerPage[x].name = field.label}
    IN IF hits = {} THEN 0 ELSE CHOOSE x \in hits : \A y \in hits : x <= y

\* getProperFieldId
GetProperFieldId(fieldName, fieldLabel) ==
    LabelFacts[IF fieldName \in {"no-name", "unnamed-field", ""}
               THEN fieldLabel ELSE fieldName].normalized

\* getAutocompleteValue(fieldLabel, fieldType) for a scanned field
FieldAutocomplete(field, facts) ==
    IF field.type = "FormTextarea" THEN "off" ELSE facts.autocomplete

\* the id string isCustomWidgetElement compares: the value property of the id
\* object, or the id itself when it is a string; the id of a Designer element
\* is an object {component, element}, the string stays empty
ElementIdValue(el) == ""

\* isCustomWidgetElement on the element at position x
IsCustomWidgetElement(x) ==
    /\ ElementIdValue(DesignerPage[x]) \in {"fieldSet", "Legend"}
    /\ DesignerPage[x].type = "DOM"
    /\ DesignerPage[x].parent # 0
    /\ DesignerPage[DesignerPage[x].parent].type = "FormForm"

\* both markings at once
RequiredWritesBoth(custom) == <<<<"aria-required", "true">>, <<"required", "required">>>>

\* the required marking: aria-required on a custom widget, required otherwise
RequiredWrites(custom) ==
    IF custom THEN <<<<"aria-required", "true">>>> ELSE <<<<"required", "required">>>>

\* the attributes applyEnhancedFieldValidation sets on a field after the
\* required marking, in the order of its calls (the type-specific ones ask for
\* field.type = "FormTextInput")
FieldWritesFrom(field, facts, properId, auto) ==
    (IF field.type = "FormTextInput" /\ facts.email
     THEN <<<<"type", "email">>,
            <<"pattern", "[a-zA-Z0-9._%+-]+@[a-zA-Z0-9.-]+\\.[a-zA-Z]{2,}">>>>
     ELSE <<>>)
    \o (IF field.type = "FormTextInput" /\ facts.phone
        THEN <<<<"type", "tel">>, <<"pattern", "[0-9\\s\\-\\(\\)\\+]{10,}">>>>
        ELSE <<>>)
    \o (IF field.type = "FormTextInput" /\ facts.url THEN <<<<"type", "url">>>> ELSE <<>>)
    \o <<<<"data-needs-error-container", "true">>,
         <<"data-error-id", properId \o "-error">>,
         <<"data-field-label", facts.normalized>>,
         <<"data-proper-field-id", properId>>,
         <<"data-auto-error-messaging", "true">>>>
    \o (IF auto # "" THEN <<<<"autocomplete", auto>>>> ELSE <<>>)

FieldWritesOf(field, facts) ==
    FieldWritesFrom(field, facts, GetProperFieldId(field.name, facts.normalized),
                    FieldAutocomplete(field, facts))

\* the direct setCustomAttribute call that follows the required marking
\* throws: the rest of the field is skipped
FieldThrows(field, fk) == field.required /\ "data-needs-error-container" \in fk

\* the writes of one run on a field; fk: the attribute names whose write
\* throws, custom: the element is a custom widget
FieldWrites(field, fk, custom) ==
    IF FieldThrows(field, fk) THEN RequiredWrites(custom)
    ELSE (IF field.required
          THEN RequiredWrites(custom) \o <<<<"data-needs-error-container", "true">>>>
          ELSE <<>>)
         \o FieldWritesOf(field, LabelFacts[field.label])

RECURSIVE SetAll(_, _, _, _)
\* setOptimalAttribute for the writes from i on; a write that throws is skipped
SetAll(a, writes, i, fk) ==
    IF i > Len(writes) THEN a
    ELSE SetAll(IF writes[i][1] \in fk THEN a ELSE Put(a, writes[i][1], writes[i][2]),
                writes, i + 1, fk)

\* applyEnhancedFieldValidation on the element at position x (0: none found)
ApplyToElement(A, x, field, setF) ==
    IF x = 0 THEN A
    ELSE [A EXCEPT ![DesignerPage[x].id] =
             SetAll(@, FieldWrites(field, FailKeys(setF, DesignerPage[x].id),
                                   IsCustomWidgetElement(x)), 1,
                    FailKeys(setF, DesignerPage[x].id))]

\* applyEnhancedFieldValidation on the attribute maps A; setF: the writes that throw
ApplyEnhancedFieldValidation(A, field, setF) ==
    ApplyToElement(A, FindFieldElement(field), field, setF)

RECURSIVE ApplyFields(_, _, _, _)
\* the field loop of applyValidationToForm, from field i on
ApplyFields(A, fields, i, setF) ==
    IF i > Len(fields) THEN A
    ELSE ApplyFields(ApplyEnhancedFieldValidation(A, fields[i], setF), fields, i + 1, setF)

\* cleanupFieldValidation on the element at position x (0: none found)
CleanupElement(A, x, remF) ==
    IF x = 0 THEN A
    ELSE [A EXCEPT ![DesignerPage[x].id] =
             CleanupExistingValidation(@, FailKeys(remF, DesignerPage[x].id))]

RECURSIVE CleanupFields(_, _, _, _)
\* cleanupFieldValidation for the fields from i on
CleanupFields(A, fields, i, remF) ==
    IF i > Len(fields) THEN A
    ELSE CleanupFields(CleanupElement(A, FindFieldElement(fields[i]), remF),
                       fields, i + 1, remF)

\* removeAllValidations: the form element, its scanned fields, then the deep scan
RemoveAllValidations(A, formNode, fields, remF) ==
    DeepScanAndRemoveValidations(
        CleanupFields([A EXCEPT ![formNode] =
                          CleanupExistingValidation(@, FailKeys(remF, formNode))],
                      fields, 1, remF),
        remF)

\* limits.max_forms of the Starter plan
MaxForms == 5

\* limits.max_forms of the Pro plan
MaxFormsPro == 25

\* limits.max_forms of the Agency plan ("Unlimited")
MaxFormsAgency == -1

\* getCurrentPlanLimits().limits.max_forms: the entry of PLAN_TIERS for the plan
PlanLimit(plan) ==
    CASE plan = "PRO" -> MaxFormsPro
      [] plan = "AGENCY" -> MaxFormsAgency
      [] OTHER -> MaxForms

\* the number of applyValidation runs followed; each stamps a later time
MaxClock == 2

\* Failures of the calls a handler makes while it runs: set, rem: the
\* (node, key) pairs whose setCustomAttribute / removeCustomAttribute throws;
\* dbw, dbr: the writes / reads of the persistence service fail
NoFault == [set |-> {}, rem |-> {}, dbw |-> FALSE, dbr |-> FALSE]

Faults ==
    {NoFault,
     [NoFault EXCEPT !.set = {<<"a", "data-needs-error-container">>,
                              <<"b", "data-error-id">>}],
     [NoFault EXCEPT !.rem = {<<"form1", "data-a11y-validator">>}],
     [NoFault EXCEPT !.dbw = TRUE],
     [NoFault EXCEPT !.dbr = TRUE]}

\* the forms handleScanPage finds: [id, node, fields, has], forms without fields dropped
ScanForms(A, req, dbase, dbr, sameIds) ==
    LET fp == FormPositions(DesignerPage)
        form(k) ==
            LET node == DesignerPage[fp[k]].id
                id == node \o "-" \o ToString(k - 1)
            IN [id |-> id, node |-> node,
                fields |-> ResolveFields(DesignerPage, req, fp[k], sameIds),
                has |-> \/ Get(A[node], "data-a11y-validator") = "enabled"
                        \/ ~dbr /\ id \in dbase]
        hasFields(f) == Len(f.fields) > 0
    IN SelectSeq([k \in 1..Len(fp) |-> form(k)], hasFields)

\* the validationStates handleScanPage rebuilds from the forms it kept
ScanStates(forms) ==
    [id \in {forms[k].id : k \in 1..Len(forms)} |->
        LET f == forms[CHOOSE k \in 1..Len(forms) : forms[k].id = id]
        IN [hasValidation |-> f.has, status |-> IF f.has THEN "applied" ELSE "none"]]

\* the attributes applyValidationToForm sets on the form element: novalidate,
\* then the sentinel and the time stamp within one try block
FormWrites(t, fk) ==
    <<<<"novalidate", "novalidate">>>>
    \o (IF "data-a11y-validator" \in fk THEN <<>>
        ELSE <<<<"data-a11y-validator", "enabled">>, <<"data-a11y-timestamp", t>>>>)

\* the form element after applyValidationToForm: a form that carries the
\* sentinel is cleaned first (the form element only), then written
FormAttrs(a, t, remFk, setFk) ==
    SetAll(IF Has(a, "data-a11y-validator") THEN CleanupExistingValidation(a, remFk) ELSE a,
           FormWrites(t, setFk), 1, setFk)

\* the annotation steps of applyValidationToForm
Annotate(A, form, t, fault) ==
    ApplyFields([A EXCEPT ![form.node] =
                    FormAttrs(@, t, FailKeys(fault.rem, form.node),
                              FailKeys(fault.set, form.node))],
                form.fields, 1, fault.set)

\* steps 4 and 5 of applyValidationToForm: the state is recorded as applied,
\* then persisted; when addValidationState fails the annotations A are rolled
\* back and the function returns normally
Persist(st, A, form, fault) ==
    [attrs |-> IF fault.dbw THEN RemoveAllValidations(A, form.node, form.fields, fault.rem)
               ELSE A,
     vs |-> Put(st.vs, form.id, [hasValidation |-> TRUE, status |-> "applied"]),
     db |-> IF fault.dbw THEN st.db ELSE st.db \cup {form.id}]

\* applyValidationToForm on st = [attrs, vs, db]
ApplyValidationToForm(st, form, t, fault) ==
    Persist(st, Annotate(st.attrs, form, t, fault), form, fault)

RECURSIVE ApplyForms(_, _, _, _, _)
\* the form loop of handleApplyValidation over the selected forms from i on
ApplyForms(st, forms, i, t, fault) ==
    IF i > Len(forms) THEN st
    ELSE ApplyForms(ApplyValidationToForm(st, forms[i], t, fault), forms, i + 1, t, fault)

RECURSIVE RemoveForms(_, _, _, _)
\* the form loop of handleRemoveAllValidations
RemoveForms(A, forms, i, remF) ==
    IF i > Len(forms) THEN A
    ELSE RemoveForms(RemoveAllValidations(A, forms[i].node, forms[i].fields, remF),
                     forms, i + 1, remF)

\* getSelectedForms: the scanned forms whose checkbox is checked
SelectedForms(sel) == LET in(f) == \E k \in sel : scannedForms[k] = f
                      IN SelectSeq(scannedForms, in)

\* getTotalValidatedForms: asks the persistence service, 0 when the call fails
GetTotalValidatedForms(dbase, dbr) == IF dbr THEN 0 ELSE Cardinality(dbase)

\* the nodes a handler run on these forms works on
NodesOf(forms) ==
    {forms[k].node : k \in 1..Len(forms)} \cup
    UNION {{DesignerPage[FindFieldElement(forms[k].fields[j])].id :
                j \in {i \in 1..Len(forms[k].fields) :
                           FindFieldElement(forms[k].fields[i]) # 0}} :
           k \in 1..Len(forms)}

\* the extension opens on the page; the user is on this plan and the
\* persistence service holds the validated forms dbase of the site
ExtInitOn(plan, dbase) ==
    /\ currentPlan = plan
    /\ attrs = HostAttrs
    /\ hostRequired = [n \in {"a", "b", "c"} |-> TRUE]
    /\ validationStates = <<>>
    /\ scannedForms = <<>>
    /\ db = dbase
    /\ count = Cardinality(dbase)
    /\ now = 0
    /\ hist = [op |-> "init", forms |-> {}, fault |-> NoFault, updated |-> {},
               ever |-> {}, phase |-> 0, pform |-> "", snap |-> <<>>, notified |-> {},
               again |-> FALSE]
    /\ tasks = <<>>
    /\ script = "page" /\ rtDom = <<>> /\ rtValue = <<>> /\ rtTouched = <<>>
    /\ errorEls = <<>> /\ lastSubmit = NoSubmit /\ rtHist = <<>>
    /\ ResIdle /\ LblIdle

\* the extension opens on the page of a user on the Starter plan
ExtInitWith(dbase) == ExtInitOn("STARTER", dbase)

ExtInit == ExtInitWith({})

\* the state handleScanPage leaves: the forms and their validation states
Scanned(forms) ==
    /\ scannedForms' = forms
    /\ validationStates' = ScanStates(forms)

\* handleScanPage
Scan(dbr, sameIds) ==
    /\ Scanned(ScanForms(attrs, hostRequired, db, dbr, sameIds))
    /\ hist' = [hist EXCEPT !.op = "scan", !.forms = {},
                            !.fault = [NoFault EXCEPT !.dbr = dbr], !.updated = {},
                            !.notified = {}, !.again = FALSE]
    /\ UNCHANGED <<attrs, hostRequired, db, count, now, tasks, currentPlan>>
    /\ UNCHANGED rtVars /\ UNCHANGED resVars /\ UNCHANGED lblVars

\* the ids of a sequence of forms
IdsOf(forms) == {forms[k].id : k \in 1..Len(forms)}

\* the position of a node on the page
PositionOf(node) == CHOOSE x \in 1..Len(DesignerPage) : DesignerPage[x].id = node

\* the run is one fault-free application to one form whose scanned fields are
\* the fields the page has now
SingleFreshApply(forms, fault) ==
    /\ Len(forms) = 1 /\ fault = NoFault
    /\ forms[1].fields =
           ResolveFields(DesignerPage, hostRequired, PositionOf(forms[1].node), TRUE)

\* the fields the field loop of applyValidationToForm reports with
\* showFieldNotification(..., false): those whose applyEnhancedFieldValidation
\* call threw
FailedFieldNotifications(forms, setF) ==
    UNION {{forms[k].fields[j].label :
                j \in {i \in 1..Len(forms[k].fields) :
                    /\ FindFieldElement(forms[k].fields[i]) # 0
                    /\ FieldThrows(forms[k].fields[i],
                           FailKeys(setF, DesignerPage[FindFieldElement(forms[k].fields[i])].id))}} :
           k \in 1..Len(forms)}

\* the record of an apply run: what ran, and where it stands in a cycle of
\* apply, remove, apply on one form
ApplyRecord(forms, fault, single, third, A) ==
    [hist EXCEPT
        !.op = "apply", !.forms = IdsOf(forms), !.fault = fault,
        !.updated = {forms[k].id : k \in {j \in 1..Len(forms) :
                        Has(attrs[forms[j].node], "data-a11y-validator")}},
        !.ever = @ \cup NodesOf(forms),
        !.phase = IF ~single THEN 0 ELSE IF third THEN 3 ELSE 1,
        !.pform = IF single THEN forms[1].id ELSE "",
        !.snap = IF ~single THEN <<>> ELSE IF third THEN @ ELSE A,
        !.notified = FailedFieldNotifications(forms, fault.set), !.again = FALSE]

\* the state handleApplyValidation leaves when its form loop ended in st
Applied(forms, fault, st) ==
    /\ attrs' = st.attrs
    /\ validationStates' = st.vs
    /\ db' = st.db
    /\ count' = GetTotalValidatedForms(st.db, fault.dbr) + Len(forms)

\* the limit check of handleApplyValidation: validated forms of the site plus
\* the selected ones against limits.max_forms
LimitExceeded(forms, dbr) ==
    GetTotalValidatedForms(db, dbr) + Len(forms) > PlanLimit(currentPlan)

\* the record of an apply run the limit check ended
RejectedRecord(forms, fault) ==
    [hist EXCEPT !.op = "limit", !.forms = IdsOf(forms), !.fault = fault,
                 !.updated = {}, !.notified = {}, !.again = FALSE,
                 !.phase = 0, !.pform = "", !.snap = <<>>]

\* handleApplyValidation on the selected forms
ApplyTo(forms, fault) ==
    /\ forms # <<>>
    /\ IF LimitExceeded(forms, fault.dbr)
       THEN /\ hist' = RejectedRecord(forms, fault)
            /\ UNCHANGED <<attrs, validationStates, db, count, now>>
       ELSE /\ now < MaxClock
            /\ now' = now + 1
            /\ Applied(forms, fault,
                       ApplyForms([attrs |-> attrs, vs |-> validationStates, db |-> db],
                                  forms, 1, now, fault))
            /\ hist' = ApplyRecord(forms, fault, SingleFreshApply(forms, fault),
                                   hist.phase = 2 /\ hist.pform = forms[1].id, attrs')
    /\ UNCHANGED <<hostRequired, scannedForms, tasks, currentPlan>>
    /\ UNCHANGED rtVars /\ UNCHANGED resVars /\ UNCHANGED lblVars

\* handleApplyValidation with the checkboxes sel checked
Apply(sel, fault) == ApplyTo(SelectedForms(sel), fault)

\* the record of a remove run
RemoveRecord(forms, fault, second) ==
    [hist EXCEPT !.op = "remove", !.forms = IdsOf(forms), !.fault = fault,
                 !.updated = {}, !.notified = {},
                 !.again = (hist.op = "remove" /\ hist.forms = IdsOf(forms)
                            /\ hist.fault = fault),
                 !.phase = IF second THEN 2 ELSE 0,
                 !.pform = IF second THEN @ ELSE "",
                 !.snap = IF second THEN @ ELSE <<>>]

\* the state handleRemoveAllValidations leaves: the status "removed" it sets
\* is replaced by what the scan at its end rebuilds
Removed(dbase, dbr, sameIds) ==
    /\ db' = dbase
    /\ count' = GetTotalValidatedForms(dbase, dbr)
    /\ Scanned(ScanForms(attrs', hostRequired, dbase, dbr, sameIds))

\* handleRemoveAllValidations on the selected forms; it ends with a scan
RemoveFrom(forms, fault, sameIds) ==
    /\ forms # <<>>
    /\ attrs' = RemoveForms(attrs, forms, 1, fault.rem)
    /\ Removed(IF fault.dbw THEN db ELSE db \ IdsOf(forms), fault.dbr, sameIds)
    /\ hist' = RemoveRecord(forms, fault,
                            /\ Len(forms) = 1 /\ fault = NoFault
                            /\ hist.phase = 1 /\ hist.pform = forms[1].id)
    /\ UNCHANGED <<hostRequired, now, tasks, currentPlan>>
    /\ UNCHANGED rtVars /\ UNCHANGED resVars /\ UNCHANGED lblVars

\* handleRemoveAllValidations with the checkboxes sel checked
Remove(sel, fault, sameIds) == RemoveFrom(SelectedForms(sel), fault, sameIds)

\* the site's designer switches the native "required" setting of a field
HostSetRequired(n) ==
    /\ hostRequired' = [hostRequired EXCEPT ![n] = ~@]
    /\ hist' = [hist EXCEPT !.op = "host", !.forms = {}, !.fault = NoFault,
                            !.updated = {}, !.notified = {}, !.again = FALSE,
                            !.phase = 0, !.pform = "", !.snap = <<>>]
    /\ UNCHANGED <<attrs, validationStates, scannedForms, db, count, now, tasks,
                   currentPlan>>
    /\ UNCHANGED rtVars /\ UNCHANGED resVars /\ UNCHANGED lblVars

Next ==
    \/ \E dbr \in BOOLEAN, sameIds \in BOOLEAN : Scan(dbr, sameIds)
    \/ \E sel \in SUBSET (1..Len(scannedForms)), fault \in Faults : Apply(sel, fault)
    \/ \E sel \in SUBSET (1..Len(scannedForms)), fault \in Faults, sameIds \in BOOLEAN :
          Remove(sel, fault, sameIds)
    \/ \E n \in {"b"} : HostSetRequired(n)

Spec == ExtInit /\ [][Next]_vars

\* validated forms of other pages of the site, one short of the limit
OtherPagesForms == {"other-1", "other-2", "other-3", "other-4"}

\* the extension opens on the page of a site that is one form short of its limit
LimitInit == ExtInitWith(OtherPagesForms)

\* the handlers on that site, without failures of the host calls
LimitNext ==
    \/ \E dbr \in BOOLEAN, sameIds \in BOOLEAN : Scan(dbr, sameIds)
    \/ \E sel \in SUBSET (1..Len(scannedForms)) : Apply(sel, NoFault)
    \/ \E sel \in SUBSET (1..Len(scannedForms)), sameIds \in BOOLEAN :
          Remove(sel, NoFault, sameIds)
    \/ \E n \in {"b"} : HostSetRequired(n)

SpecLimit == LimitInit /\ [][LimitNext]_vars

\* the plans above Starter
PaidPlans == {"PRO", "AGENCY"}

\* the extension opens on the page of a user on a paid plan, no form of the
\* site validated yet
PlanInit == \E plan \in PaidPlans : ExtInitOn(plan, {})

SpecPlans == PlanInit /\ [][LimitNext]_vars

(***************************************************************************)
(* Handler runs that overlap. The buttons stay enabled while a handler     *)
(* runs, and a handler gives up control at every await: between the form   *)
(* element and the first field, between two fields (the 80 ms and 150 ms   *)
(* delays of the field loops), before the deep scan and before the state   *)
(* update. A run is followed step by step from one such point to the next. *)
(***************************************************************************)

\* the number of handler runs in flight at once
MaxOverlap == 2

\* the last step of a run: an apply works on the form element, on each field
\* and on the state; a removal also runs the deep scan before the state
LastStep(task) ==
    Len(task.form.fields) + (IF task.kind = "apply" THEN 2 ELSE 3)

Completed(task) == task.pc = LastStep(task)

\* a click starts a run on the first form of the list; during: another run
\* had not completed at the time of the click
Started(kind, form) ==
    tasks' = Append(tasks, [kind |-> kind, pc |-> 0, form |-> form, t |-> now,
                            during |-> \E j \in 1..Len(tasks) : ~Completed(tasks[j])])

\* click on "apply validation" with the first form checked: the selection is
\* read and the limit checked, then the run waits
ClickApply ==
    /\ Len(tasks) < MaxOverlap /\ now < MaxClock
    /\ SelectedForms({1}) # <<>>
    /\ ~LimitExceeded(SelectedForms({1}), FALSE)
    /\ Started("apply", SelectedForms({1})[1])
    /\ now' = now + 1
    /\ UNCHANGED <<attrs, hostRequired, validationStates, scannedForms, db, count, hist,
                   currentPlan>>
    /\ UNCHANGED rtVars /\ UNCHANGED resVars /\ UNCHANGED lblVars

\* click on "remove all validations" with the first form checked
ClickRemove ==
    /\ Len(tasks) < MaxOverlap
    /\ SelectedForms({1}) # <<>>
    /\ Started("remove", SelectedForms({1})[1])
    /\ UNCHANGED <<attrs, hostRequired, validationStates, scannedForms, db, count, now,
                   hist, currentPlan>>
    /\ UNCHANGED rtVars /\ UNCHANGED resVars /\ UNCHANGED lblVars

\* the next step of the apply run i: applyValidationToForm on the form
\* element, then on one field, and at the end the state, the persisted state
\* and the count of handleApplyValidation
ApplyStep(i) ==
    /\ tasks[i].kind = "apply" /\ ~Completed(tasks[i])
    /\ tasks' = [tasks EXCEPT ![i].pc = @ + 1]
    /\ CASE tasks[i].pc = 0 ->
               /\ attrs' = [attrs EXCEPT ![tasks[i].form.node] =
                               FormAttrs(@, tasks[i].t, {}, {})]
               /\ UNCHANGED <<validationStates, db, count>>
         [] tasks[i].pc \in 1..Len(tasks[i].form.fields) ->
               /\ attrs' = ApplyEnhancedFieldValidation(
                               attrs, tasks[i].form.fields[tasks[i].pc], {})
               /\ UNCHANGED <<validationStates, db, count>>
         [] OTHER ->
               /\ validationStates' = Put(validationStates, tasks[i].form.id,
                                          [hasValidation |-> TRUE, status |-> "applied"])
               /\ db' = db \cup {tasks[i].form.id}
               /\ count' = GetTotalValidatedForms(db', FALSE) + 1
               /\ UNCHANGED attrs
    /\ UNCHANGED <<hostRequired, scannedForms, now, hist, currentPlan>>
    /\ UNCHANGED rtVars /\ UNCHANGED resVars /\ UNCHANGED lblVars

\* the next step of the removal run i: removeAllValidations on the form
\* element, then on one field, then the deep scan, and at the end the state
\* update, the recount and the scan of handleRemoveAllValidations
RemoveStep(i, sameIds) ==
    /\ tasks[i].kind = "remove" /\ ~Completed(tasks[i])
    /\ tasks' = [tasks EXCEPT ![i].pc = @ + 1]
    /\ CASE tasks[i].pc = 0 ->
               /\ attrs' = [attrs EXCEPT ![tasks[i].form.node] =
                               CleanupExistingValidation(@, {})]
               /\ UNCHANGED <<validationStates, scannedForms, db, count>>
         [] tasks[i].pc \in 1..Len(tasks[i].form.fields) ->
               /\ attrs' = CleanupElement(
                               attrs, FindFieldElement(tasks[i].form.fields[tasks[i].pc]), {})
               /\ UNCHANGED <<validationStates, scannedForms, db, count>>
         [] tasks[i].pc = Len(tasks[i].form.fields) + 1 ->
               /\ attrs' = DeepScanAndRemoveValidations(attrs, {})
               /\ UNCHANGED <<validationStates, scannedForms, db, count>>
         [] OTHER ->
               /\ UNCHANGED attrs
               /\ Removed(db \ {tasks[i].form.id}, FALSE, sameIds)
    /\ UNCHANGED <<hostRequired, now, hist, currentPlan>>
    /\ UNCHANGED rtVars /\ UNCHANGED resVars /\ UNCHANGED lblVars

OverlapNext ==
    \/ \E sameIds \in BOOLEAN : Scan(FALSE, sameIds)
    \/ ClickApply
    \/ ClickRemove
    \/ \E i \in 1..Len(tasks) : ApplyStep(i)
    \/ \E i \in 1..Len(tasks), sameIds \in BOOLEAN : RemoveStep(i, sameIds)

SpecOverlap == ExtInit /\ [][OverlapNext]_vars

\* C1: a submit event on a form none of whose validated fields fails its rule
\* lets the submission proceed exactly once.
C1_ValidSubmitProceedsOnce ==
    (lastSubmit.fired /\ ~lastSubmit.ruleFail) => lastSubmit.sent = 1

\* C2: on a submit event the submission is blocked exactly when at least one
\* field fails the rule it declares.
C2_BlockedIffRuleFails ==
    lastSubmit.fired => ((lastSubmit.sent = 0) <=> lastSubmit.ruleFail)

(***************************************************************************)
(*                     FIELD RESOLUTION ON OTHER PAGES                     *)
(***************************************************************************)

\* the deepest nesting of a field below its form
MaxDepth == 5

\* the container types a page is built from
ContainerTypes == {"Block", "VFlex", "HFlex", "Container", "DOM"}

\* a chain of d containers of mixed types
MixedChain(d) ==
    [i \in 1..d |-> <<"VFlex", "Block", "HFlex", "Container", "DOM">>[(i % 5) + 1]]

\* the container chains between a form and its nested field: every chain of
\* up to two containers, and uniform and mixed chains up to MaxDepth
Chains ==
    {<<>>} \cup {<<t>> : t \in ContainerTypes}
           \cup {<<t, u>> : t \in ContainerTypes, u \in ContainerTypes}
           \cup {[i \in 1..d |-> t] : d \in 3..MaxDepth, t \in {"Block", "DOM"}}
           \cup {MixedChain(d) : d \in 3..MaxDepth}

\* a page with one form, a field directly in it and a field below the chain c
ChainPage(c) ==
    <<[id |-> "form1", type |-> "FormForm", parent |-> 0, label |-> "", name |-> "Contact"],
      [id |-> "e", type |-> "FormTextInput", parent |-> 1, label |-> "Email",
       name |-> "Email"]>>
    \o [i \in 1..Len(c) |->
          [id |-> "w" \o ToString(i), type |-> c[i],
           parent |-> IF i = 1 THEN 1 ELSE i + 1, label |-> "", name |-> ""]]
    \o <<[id |-> "n", type |-> "FormTextInput",
          parent |-> IF Len(c) = 0 THEN 1 ELSE Len(c) + 2,
          label |-> "Full Name", name |-> "Name"]>>

\* a page with two sibling forms and a field x between them that is inside
\* neither: directly in the body, or in a container of the body
TwoFormPage(c) ==
    <<[id |-> "form1", type |-> "FormForm", parent |-> 0, label |-> "", name |-> "Contact"],
      [id |-> "e", type |-> "FormTextInput", parent |-> 1, label |-> "Email",
       name |-> "Email"]>>
    \o [i \in 1..Len(c) |->
          [id |-> "w" \o ToString(i), type |-> c[i], parent |-> 0, label |-> "",
           name |-> ""]]
    \o <<[id |-> "x", type |-> "FormTextInput", parent |-> IF Len(c) = 0 THEN 0 ELSE 3,
          label |-> "Phone", name |-> "Phone"],
         [id |-> "form2", type |-> "FormForm", parent |-> 0, label |-> "",
          name |-> "Feedback"],
         [id |-> "m", type |-> "FormTextarea", parent |-> Len(c) + 4,
          label |-> "Message", name |-> "Message"]>>

\* the pages the scan is run on
Pages == {ChainPage(c) : c \in Chains}
         \cup {TwoFormPage(c) : c \in {<<>>} \cup {<<t>> : t \in ContainerTypes}}

\* the form of the three-field scenario: "Comments" is the field the host
\* may report as not required
ScenarioPage ==
    <<[id |-> "form1", type |-> "FormForm", parent |-> 0, label |-> "", name |-> "Contact"],
      [id |-> "n", type |-> "FormTextInput", parent |-> 1, label |-> "Full Name",
       name |-> "Name"],
      [id |-> "e", type |-> "FormTextInput", parent |-> 1, label |-> "Work Email",
       name |-> "Email"],
      [id |-> "k", type |-> "FormTextarea", parent |-> 1, label |-> "Comments",
       name |-> "Comments"]>>

\* a form whose first child is a DOMElement the host fails to read, followed
\* by a container with a field and by a field directly in the form
FaultyPage ==
    <<[id |-> "form1", type |-> "FormForm", parent |-> 0, label |-> "", name |-> "Contact"],
      [id |-> "d", type |-> "DOMElement", parent |-> 1, label |-> "", name |-> "",
       throws |-> TRUE],
      [id |-> "v", type |-> "VFlex", parent |-> 1, label |-> "", name |-> ""],
      [id |-> "n", type |-> "FormTextInput", parent |-> 3, label |-> "Full Name",
       name |-> "Name"],
      [id |-> "e", type |-> "FormTextInput", parent |-> 1, label |-> "Email",
       name |-> "Email"]>>

\* the host marks every field of a page required
AllRequired(page) == [n \in {page[i].id : i \in 1..Len(page)} |-> TRUE]

\* the scans followed: every page with all its fields required, the page with
\* the failing subtree, and the scenario page with "Comments" required or not, getRequired() of that
\* field answering or throwing
ResolveInputs ==
    {[page |-> p, sameIds |-> s, req |-> AllRequired(p), fails |-> {}] :
        p \in Pages, s \in BOOLEAN}
    \cup {[page |-> FaultyPage, sameIds |-> s, req |-> AllRequired(FaultyPage),
           fails |-> {}] : s \in BOOLEAN}
    \cup {[page |-> ScenarioPage, sameIds |-> s,
           req |-> [AllRequired(ScenarioPage) EXCEPT !["k"] = r], fails |-> F] :
              s \in BOOLEAN, r \in BOOLEAN, F \in {{}, {"k"}}}

\* isRequired of the scan for every element of the page
RequiredAnswers(page, req, fails) ==
    [n \in {page[i].id : i \in 1..Len(page)} |-> GetRequired(req, fails, n)]

\* what the scan resolves on a page: for each form, the ids of its fields
ResolvePage(page, req, sameIds) ==
    [f \in {i \in 1..Len(page) : page[i].type = "FormForm"} |->
        {page[x].id : x \in FieldPositions(page, req, f, sameIds)}]

\* the ids of a sequence of scanned fields
FieldIds(fields) == [i \in 1..Len(fields) |-> fields[i].id]

\* for each form of the page, the ids of its fields array in the order pushed
ResolveLists(page, req, sameIds) ==
    [f \in {i \in 1..Len(page) : page[i].type = "FormForm"} |->
        FieldIds(ResolveFields(page, req, f, sameIds))]

ResInit ==
    /\ tree = <<>> /\ resolved = <<>>
    /\ ExtIdle /\ LblIdle
    /\ script = "page" /\ rtDom = <<>> /\ rtValue = <<>> /\ rtTouched = <<>>
    /\ errorEls = <<>> /\ lastSubmit = NoSubmit /\ rtHist = <<>>

\* the outcome of one scan: what was scanned and what it resolved
Resolution(in, answers) ==
    [page |-> in.page, sameIds |-> in.sameIds, req |-> in.req, fails |-> in.fails,
     fields |-> ResolvePage(in.page, answers, in.sameIds),
     lists |-> ResolveLists(in.page, answers, in.sameIds)]

\* the field resolution of handleScanPage on the page of in; the results of
\* the last two scans are kept
Resolve(in) ==
    /\ tree' = in.page
    /\ resolved' = <<Resolution(in, RequiredAnswers(in.page, in.req, in.fails))>>
                   \o (IF resolved = <<>> THEN <<>> ELSE <<resolved[1]>>)
    /\ UNCHANGED rtVars /\ UNCHANGED extVars /\ UNCHANGED lblVars

ResNext == \E in \in ResolveInputs : Resolve(in)

SpecResolve == ResInit /\ [][ResNext]_vars

(***************************************************************************)
(*                          THE FIELD CLASSIFIER                           *)
(***************************************************************************)

\* the words and separators the labels under study are made of
LabelWords == {"", "Email", "E-mail", "Phone", "Fax", "Website", "Name", "Message",
               "Terms", "!!!"}

LabelSeparators == {" ", " & ", "-", "_"}

\* the labels under study: one word, or two words around a separator
LabelInputs ==
    LabelWords \cup {w \o s \o v : w \in LabelWords, s \in LabelSeparators,
                                    v \in LabelWords}

\* the classification of the scan: the relevance filter, then the type
\* determination; a field that fails either is skipped
ClassifyByLabel(label) ==
    IF ~IsRelevantField(label) THEN "unsupported"
    ELSE IF ScanFieldType(label) = "" THEN "unsupported"
    ELSE ScanFieldType(label)

LblInit ==
    /\ \E l \in LabelInputs : labelRun = [label |-> l, op |-> "none"]
    /\ ExtIdle /\ ResIdle
    /\ script = "page" /\ rtDom = <<>> /\ rtValue = <<>> /\ rtTouched = <<>>
    /\ errorEls = <<>> /\ lastSubmit = NoSubmit /\ rtHist = <<>>

\* the label is normalised, and the result is normalised again
NormalizeTwice ==
    /\ labelRun' = [label |-> labelRun.label, op |-> "normalize",
                    once |-> NormalizeLabel(labelRun.label),
                    twice |-> NormalizeLabel(NormalizeLabel(labelRun.label))]
    /\ UNCHANGED rtVars /\ UNCHANGED extVars /\ UNCHANGED resVars

\* the scan classifies a field with this label
Classify ==
    /\ labelRun' = [label |-> labelRun.label, op |-> "classify",
                    type |-> ClassifyByLabel(labelRun.label)]
    /\ UNCHANGED rtVars /\ UNCHANGED extVars /\ UNCHANGED resVars

\* the names two text inputs of a page can carry; "": the field has no name
WiredNames == {"", "Email", "Name"}

\* a text input with this label and name
TextInput(id, label, name) ==
    [id |-> id, type |-> "FormTextInput", parent |-> 0, label |-> label, name |-> name]

\* the custom attributes a fault-free apply writes on a field the scan listed
WrittenAttrs(field) == SetAll(NoAttrs, FieldWrites(field, {}, FALSE), 1, {})

\* the scan lists two text inputs of a page, the first with the label under
\* study, and an apply annotates both
WireFields(name, other) ==
    /\ labelRun.label \in Labels \ {""}
    /\ labelRun' =
          [label |-> labelRun.label, op |-> "wire",
           fields |-> <<FieldInfoOf(TextInput("x", labelRun.label, name), labelRun.label),
                        FieldInfo(<<other>>, 1)>>,
           written |-> <<WrittenAttrs(FieldInfoOf(TextInput("x", labelRun.label, name),
                                                   labelRun.label)),
                         WrittenAttrs(FieldInfo(<<other>>, 1))>>]
    /\ UNCHANGED rtVars /\ UNCHANGED extVars /\ UNCHANGED resVars

LblNext ==
    \/ NormalizeTwice
    \/ Classify
    \/ \E name \in WiredNames, label \in Labels \ {""}, other \in WiredNames :
          WireFields(name, TextInput("y", label, other))

SpecLabels == LblInit /\ [][LblNext]_vars

\* the scanned form with this id
FormById(id) == scannedForms[CHOOSE k \in 1..Len(scannedForms) : scannedForms[k].id = id]

\* the form element and the field elements a handler run reaches for this form
FormNodes(form) == NodesOf(<<form>>)

\* the field elements inside the form element, by the page structure
OwnFieldNodes(formNode) ==
    {DesignerPage[x].id : x \in {y \in 1..Len(DesignerPage) :
        /\ DesignerPage[y].type # "FormForm"
        /\ DesignerPage[y].parent # 0
        /\ DesignerPage[DesignerPage[y].parent].id = formNode}}

\* the attribute names applyEnhancedFieldValidation writes on a field
FieldAnnotationKeys ==
    {"required", "data-needs-error-container", "type", "pattern", "data-error-id",
     "data-field-label", "data-proper-field-id", "data-auto-error-messaging",
     "autocomplete"}

\* C3: apply, remove, apply on one form with the same fields leaves the form
\* element and its field elements with the attributes a single apply left
\* (the time stamp of the application set aside).
C3_ApplyRemoveApplyEqualsApply ==
    hist.phase = 3 =>
        \A n \in FormNodes(FormById(hist.pform)) :
            Del(attrs[n], "data-a11y-timestamp") = Del(hist.snap[n], "data-a11y-timestamp")

\* C4: when the persistence write fails during apply, the form carries the
\* sentinel exactly when its validation state says "applied".
C4_RollbackKeepsStatesInAgreement ==
    (hist.op = "apply" /\ hist.fault.dbw) =>
        \A id \in hist.forms :
            Has(attrs[FormById(id).node], "data-a11y-validator")
                <=> validationStates[id].status = "applied"

\* C5: after apply on a form that carried the sentinel, a field element of the
\* form that is not part of the new application carries no key of the old one.
C5_NoOldKeySurvivesUpdate ==
    (hist.op = "apply" /\ hist.fault = NoFault) =>
        \A id \in hist.updated :
            \A n \in OwnFieldNodes(FormById(id).node) \ FormNodes(FormById(id)) :
                DOMAIN attrs[n] \cap FieldAnnotationKeys = {}

\* C6: the scan that follows a removal reports hasExistingValidations = false
\* for every form the removal was run on, whatever failed during the removal.
C6_ScanAfterRemoveReportsNone ==
    hist.op = "remove" => \A id \in hist.forms : ~FormById(id).has

\* C7: after a removal the validation state of every form it was run on is
\* present with status "removed".
C7_RemovedStatusKept ==
    hist.op = "remove" =>
        \A id \in hist.forms :
            id \in DOMAIN validationStates /\ validationStates[id].status = "removed"

\* C8: after a removal, an element no apply has worked on carries the
\* attributes its author gave it.
C8_NeverAnnotatedUntouched ==
    hist.op = "remove" => \A n \in Nodes \ hist.ever : attrs[n] = HostAttrs[n]

\* the positions of the forms of a page
FormSet(page) == {i \in 1..Len(page) : page[i].type = "FormForm"}

\* the fields of a page that lie between two forms and inside neither
BetweenFields(page) ==
    {x \in 1..Len(page) :
        /\ page[x].type \in {"FormTextInput", "FormTextarea"}
        /\ \E f \in FormSet(page) : f < x
        /\ \E g \in FormSet(page) : g > x
        /\ \A h \in FormSet(page) : ~BelongsStructurally(page, h, x)}

\* C9: a field between two sibling forms and inside neither is resolved to the
\* form before it and not to the form after it.
C9_BetweenFieldGoesToPrecedingForm ==
    \A i \in 1..Len(resolved) :
        LET p == resolved[i].page
        IN \A x \in BetweenFields(p) :
              LET pre == CHOOSE f \in FormSet(p) :
                             f < x /\ \A h \in FormSet(p) : h < x => h <= f
                  fol == CHOOSE g \in FormSet(p) :
                             g > x /\ \A h \in FormSet(p) : h > x => g <= h
              IN /\ p[x].id \in resolved[i].fields[pre]
                 /\ p[x].id \notin resolved[i].fields[fol]

\* two pages place the same elements at the same places and differ at most in
\* the types of their containers
SameLeafPlacement(p, q) ==
    /\ Len(p) = Len(q)
    /\ \A k \in 1..Len(p) :
          /\ p[k].id = q[k].id /\ p[k].parent = q[k].parent
          /\ p[k].label = q[k].label /\ p[k].name = q[k].name
          /\ \/ p[k].type = q[k].type
             \/ p[k].type \in ContainerTypes /\ q[k].type \in ContainerTypes

ReachedByBoth(page, f, sameIds) ==
    {x \in 1..Len(page) :
        /\ page[x].type \in {"FormTextInput", "FormTextarea"}
        /\ BelongsStructurally(page, f, x)
        /\ BelongsPositionally(page, f, x, sameIds)}

\* the number of entries of a list that are v
Occurrences(list, v) == Cardinality({k \in 1..Len(list) : list[k] = v})

\* C11: a field the scan keeps for a form, and that both the structural search
\* and the positional fallback reach, is in the form's field list exactly once.
C11_ReachedByBothListedOnce ==
    \A i \in 1..Len(resolved) :
        \A f \in FormSet(resolved[i].page) :
            \A x \in ReachedByBoth(resolved[i].page, f, resolved[i].sameIds) :
                resolved[i].page[x].id \in resolved[i].fields[f]
                    => Occurrences(resolved[i].lists[f], resolved[i].page[x].id) = 1

\* a scan kept a field that lies inside its form, two containers down, and
\* after it in document order, on a host where the fallback finds the form
C11_Witness ==
    /\ resolved # <<>>
    /\ resolved[1].sameIds
    /\ Len(resolved[1].page) = 5
    /\ 5 \in ReachedByBoth(resolved[1].page, 1, TRUE)
    /\ Occurrences(resolved[1].lists[1], "n") = 1

\* the label of the element with this id
LabelOfId(page, id) == ScanLabel(page[CHOOSE x \in 1..Len(page) : page[x].id = id])

\* C12: every field in a scanned form's list has a supported type and is
\* marked required by the host.
C12_KeptOnlyIfSupportedAndRequired ==
    \A i \in 1..Len(resolved) :
        \A f \in FormSet(resolved[i].page) :
            \A k \in 1..Len(resolved[i].lists[f]) :
                /\ ScanFieldType(LabelOfId(resolved[i].page, resolved[i].lists[f][k])) # ""
                /\ resolved[i].req[resolved[i].lists[f][k]]

\* the element a handler run reaches for a scanned field ("" when none)
FieldNode(field) ==
    IF FindFieldElement(field) = 0 THEN "" ELSE DesignerPage[FindFieldElement(field)].id

\* the type and pattern the marking of a field type consists of
TypeMarking(fieldType) ==
    IF fieldType = "email"
    THEN "type" :> "email" @@ "pattern" :> "[a-zA-Z0-9._%+-]+@[a-zA-Z0-9.-]+\\.[a-zA-Z]{2,}"
    ELSE IF fieldType = "phone"
    THEN "type" :> "tel" @@ "pattern" :> "[0-9\\s\\-\\(\\)\\+]{10,}"
    ELSE IF fieldType = "url" THEN "type" :> "url"
    ELSE <<>>

\* the type and pattern attributes an element carries
TypeAttrs(a) == [k \in DOMAIN a \cap {"type", "pattern"} |-> a[k]]

\* C13: after a fault-free apply every field of the forms applied to carries
\* the type and pattern of its resolved field type: email and phone a type and
\* a pattern, url a type, plain and message neither.
C13_TypeMarkingFollowsFieldType ==
    (hist.op = "apply" /\ hist.fault = NoFault) =>
        \A id \in hist.forms :
            \A k \in 1..Len(FormById(id).fields) :
                LET field == FormById(id).fields[k]
                IN FieldNode(field) # "" =>
                       TypeAttrs(attrs[FieldNode(field)]) = TypeMarking(field.fieldType)

\* the fields of the forms the last run worked on, with the element reached
RunFields ==
    UNION {{FormById(id).fields[k] : k \in 1..Len(FormById(id).fields)} : id \in hist.forms}

C15_ErrorWiringFromNormalizedLabel ==
    (hist.op = "apply" /\ hist.fault = NoFault) =>
        \A field \in RunFields :
            FieldNode(field) # "" =>
                /\ Get(attrs[FieldNode(field)], "data-error-id")
                       = NormalizeLabel(field.label) \o "-error"
                /\ Get(attrs[FieldNode(field)], "data-field-label")
                       = NormalizeLabel(field.label)
                /\ Get(attrs[FieldNode(field)], "data-auto-error-messaging") = "true"

\* the elements a scan of the page as it is now lists for the form
CurrentFieldNodes(form) ==
    LET fields == ResolveFields(DesignerPage, hostRequired, PositionOf(form.node), TRUE)
    IN {fields[k].id : k \in 1..Len(fields)}

\* C16: every element a fault-free apply annotated for a form is a field a
\* scan of the page at the time of the apply lists for that form.
C16_ApplyWorksOnCurrentFields ==
    (hist.op = "apply" /\ hist.fault = NoFault) =>
        \A id \in hist.forms :
            \A k \in 1..Len(FormById(id).fields) :
                FieldNode(FormById(id).fields[k]) # ""
                    => FieldNode(FormById(id).fields[k]) \in CurrentFieldNodes(FormById(id))

\* C17: a scan changes no attribute of any element and no validation state
\* that exists, and a scan that follows a scan lists the same forms with the
\* same fields.
C17_ScanChangesNothing ==
    [][hist'.op = "scan" =>
          /\ attrs' = attrs
          /\ \A id \in DOMAIN validationStates :
                 id \in DOMAIN validationStates'
                     /\ validationStates'[id] = validationStates[id]
          /\ hist.op = "scan" =>
                 [k \in 1..Len(scannedForms') |->
                     <<scannedForms'[k].id, scannedForms'[k].fields>>]
                 = [k \in 1..Len(scannedForms) |->
                     <<scannedForms[k].id, scannedForms[k].fields>>]]_vars

\* the attribute names a full annotation of a required field consists of
FullFieldKeys ==
    {"required", "data-needs-error-container", "data-error-id", "data-field-label",
     "data-proper-field-id", "data-auto-error-messaging"}

\* C18: after an apply that was not rolled back, a field none of whose writes
\* failed is fully annotated whatever failed on other fields, and a field with
\* a failed write is among the fields reported as failed.
C18_FieldFailureContainedAndReported ==
    (hist.op = "apply" /\ ~hist.fault.dbw) =>
        \A field \in RunFields :
            FieldNode(field) # "" =>
                IF FailKeys(hist.fault.set, FieldNode(field)) = {}
                THEN FullFieldKeys \subseteq DOMAIN attrs[FieldNode(field)]
                ELSE field.label \in hist.notified

FailsDeclaredRuleOn(el, v, facts) ==
    /\ ~RuleChecksOn(el, v, facts, TRUE).valid
    /\ ~RuleChecksOn(el, v, facts, FALSE).valid

FailsDeclaredRule(el, typed) ==
    FailsDeclaredRuleOn(el, FieldValue(el, typed), ValueFacts[FieldValue(el, typed)])

\* the field shows as invalid: it carries aria-invalid="true" or the error
\* element it names is displayed
InInvalidState(el, E) ==
    \/ Get(el.attrs, "aria-invalid") = "true"
    \/ /\ Has(E, Get(el.attrs, "data-error-id"))
       /\ E[Get(el.attrs, "data-error-id")].display

\* C20: a field that received a focus or input event and was then blurred, or
\* whose form was then submitted, while its value fails the rule its attributes
\* declare, is in the invalid state.
C20_TouchedFailingFieldBecomesInvalid ==
    \A f \in RtFields :
        (/\ f \in rtHist.seen
         /\ f \in rtHist.checked
         /\ FailsDeclaredRule(rtDom[f], rtValue[f]))
        => InInvalidState(rtDom[f], errorEls)

\* C21: an input event on a field in the invalid state leaves the field out of
\* the invalid state: its error is cleared and it is not validated again by
\* that event.
C21_InputClearsError ==
    [][\A f \in RtFields :
          (InInvalidState(rtDom[f], errorEls) /\ rtValue'[f] # rtValue[f])
          => ~InInvalidState(rtDom'[f], errorEls')]_vars

\* validateField ran on field f in the most recent event: a blur of f or a
\* submit of its form, on a field the build validates
WasValidated(f) ==
    /\ f \in rtHist.checked
    /\ IsValidated(script, rtDom[f])
    /\ (script = "page" /\ rtHist.checked # RtFields) => rtTouched[f]

\* the error node of the field exists, is displayed and shows a message, and
\* the field points to it
ErrorShown(el, E) ==
    /\ Has(E, Get(el.attrs, "data-error-id"))
    /\ E[Get(el.attrs, "data-error-id")].display
    /\ E[Get(el.attrs, "data-error-id")].msg # ""
    /\ Get(el.attrs, "aria-invalid") = "true"
    /\ Get(el.attrs, "aria-describedby") = Get(el.attrs, "data-error-id")

\* the error node of the field, if any, is hidden and the field carries
\* neither ARIA attribute
ErrorReversed(el, E) ==
    /\ Has(E, Get(el.attrs, "data-error-id")) => ~E[Get(el.attrs, "data-error-id")].display
    /\ ~Has(el.attrs, "aria-invalid")
    /\ ~Has(el.attrs, "aria-describedby")

SideEffectsMatch(el, r, E) ==
    IF r.valid THEN ErrorReversed(el, E) ELSE ErrorShown(el, E)

\* C22: after a field was validated, an invalid field has its error node
\* displayed with a message and carries aria-invalid="true" and
\* aria-describedby equal to its data-error-id; a valid field has its error
\* hidden and carries neither ARIA attribute.
C22_SideEffectsOfValidation ==
    \A f \in RtFields :
        WasValidated(f) =>
            SideEffectsMatch(rtDom[f],
                RuleChecks(rtDom[f], FieldValue(rtDom[f], rtValue[f]), StrictPhone(script)),
                errorEls)

\* the field is marked required by the required attribute or by
\* aria-required="true"
MarkedRequired(el) == Has(el.attrs, "required") \/ Get(el.attrs, "aria-required") = "true"

\* C23: a field marked required by either marking, validated on a blur or a
\* submit while its value is empty or whitespace only, is in the invalid state.
C23_EitherRequiredMarkingIsEnforced ==
    \A f \in RtFields :
        (/\ WasValidated(f)
         /\ MarkedRequired(rtDom[f])
         /\ ValueFacts[rtValue[f]].trim = "")
        => InInvalidState(rtDom[f], errorEls)

\* the verdicts on one value of the pattern apply writes and of the phone
\* checks of the runtime builds
PhoneVerdicts(v, facts) == {PhonePatternAccepts(v), facts.phoneStrict, facts.phoneLoose}

\* C24: the phone pattern written by apply and the phone check of every
\* runtime build give the same verdict on every value a phone field holds.
C24_OnePhoneRule ==
    \A f \in RtFields :
        (RtType(rtDom[f]) = "tel" /\ rtValue[f] # "")
        => Cardinality(PhoneVerdicts(rtValue[f], ValueFacts[rtValue[f]])) = 1

\* the element of a Designer node on the published page: its custom attributes
\* are its HTML attributes; the input type of the host stays at its default,
\* text, unless a custom attribute sets it
PublishedElement(n) ==
    [tag |-> IF NodeType(n) = "FormTextarea" THEN "textarea" ELSE "input",
     labelText |-> "", attrs |-> attrs[n]]

\* the email check of the runtime accepts "user@example.com" on the element and
\* rejects "not-an-email"
EmailRoundTrip(el) ==
    /\ RuleChecks(el, "user@example.com", TRUE).valid
    /\ ~RuleChecks(el, "not-an-email", TRUE).valid

\* C25: after a fault-free apply, a field whose field type is email is, on the
\* published page, accepted by the runtime for "user@example.com" and rejected
\* for "not-an-email".
C25_EmailRoundTrip ==
    (hist.op = "apply" /\ hist.fault = NoFault) =>
        \A field \in RunFields :
            (field.fieldType = "email" /\ FieldNode(field) # "")
            => EmailRoundTrip(PublishedElement(FieldNode(field)))

\* how many of these forms carry the sentinel of an apply
AnnotatedAmong(ids) ==
    Cardinality({id \in ids : Has(attrs[FormById(id).node], "data-a11y-validator")})

\* how many forms still fit under the limit
FormsThatFit == IF Cardinality(db) >= MaxForms THEN 0 ELSE MaxForms - Cardinality(db)

\* C26: after an apply that exceeded the form limit, as many of the selected
\* forms as still fit under the limit are annotated.
C26_WithinQuotaFormsAnnotated ==
    hist.op = "limit" =>
        \/ AnnotatedAmong(hist.forms) >= FormsThatFit
        \/ AnnotatedAmong(hist.forms) = Cardinality(hist.forms)

RECURSIVE Ancestors(_, _)
\* the positions of the elements above element i
Ancestors(page, i) ==
    IF page[i].parent = 0 THEN {}
    ELSE {page[i].parent} \cup Ancestors(page, page[i].parent)

\* the page with every getChildren() call answering
Healthy(page) ==
    [i \in 1..Len(page) |-> [k \in DOMAIN page[i] \ {"throws"} |-> page[i][k]]]

\* the fields of form f the scan resolves when no call fails and that lie in
\* no subtree whose read fails
FieldsElsewhere(page, f, healthyFields) ==
    {page[x].id : x \in {y \in 1..Len(page) :
        /\ page[y].id \in healthyFields
        /\ ~GetChildrenThrows(page, f)
        /\ \A a \in Ancestors(page, y) : ~GetChildrenThrows(page, a)}}

\* C27: when reading a subtree fails during a scan, the form is still resolved
\* with every field the scan finds for it outside the failing subtree.
C27_FailingSubtreeAloneSkipped ==
    \A i \in 1..Len(resolved) :
        \A f \in FormSet(resolved[i].page) :
            FieldsElsewhere(resolved[i].page, f,
                ResolvePage(Healthy(resolved[i].page),
                            RequiredAnswers(resolved[i].page, resolved[i].req,
                                            resolved[i].fails),
                            resolved[i].sameIds)[f])
                \subseteq resolved[i].fields[f]

\* the scanned fields of the forms with these ids
FieldsOfForms(ids) ==
    UNION {{FormById(id).fields[k] : k \in 1..Len(FormById(id).fields)} : id \in ids}

\* C28: an apply that fails on a field before it has worked out all of the
\* field's attributes leaves the field's element as it was: nothing is written
\* before the whole set is known.
C28_NothingWrittenBeforeAllComputed ==
    [][\A field \in FieldsOfForms(hist'.forms) :
          (/\ hist'.op = "apply" /\ ~hist'.fault.dbw
           /\ field.label \in hist'.notified
           /\ FieldNode(field) # "")
          => attrs'[FieldNode(field)] = attrs[FieldNode(field)]]_vars

\* C29: normalising a label twice gives what normalising it once gives, for
\* every label, the empty one and those without any allowed character included.
C29_NormalizeLabelIdempotent ==
    labelRun.op = "normalize" => labelRun.twice = labelRun.once

\* the six field types
FieldTypes == {"email", "phone", "url", "plain", "message", "unsupported"}

\* the first keyword family the label matches, in the order email, phone, url,
\* the keyword "name", the message family; unsupported when none matches
FirstMatch(chainType) == IF chainType = "" THEN "unsupported" ELSE chainType

\* C30: the classification of a label is one of the six field types, the one of
\* the first keyword family the label matches in the order email, phone, url,
\* name, message, and unsupported when it matches none.
C30_ClassifiedByFirstMatch ==
    labelRun.op = "classify" =>
        /\ labelRun.type \in FieldTypes
        /\ labelRun.type = FirstMatch(ScanFieldType(labelRun.label))

\* the form element and the field elements inside it
FormAndFields(formNode) == {formNode} \cup OwnFieldNodes(formNode)

\* the form elements of the page that carry the sentinel of an apply and are
\* none of the forms with these ids
OtherAnnotatedForms(ids) ==
    {n \in {DesignerPage[g].id : g \in FormSet(DesignerPage)} :
        /\ Has(attrs[n], "data-a11y-validator")
        /\ n \notin {FormById(id).node : id \in ids}}

\* C31: a removal changes attributes only on the forms it was run on and on
\* their fields: every other annotated form of the page, and each of its
\* fields, carries afterwards the attributes it carried before.
C31_RemoveLeavesOtherFormsAlone ==
    [][hist'.op = "remove" =>
          \A other \in OtherAnnotatedForms(hist'.forms) :
              \A n \in FormAndFields(other) : attrs'[n] = attrs[n]]_vars

\* the elements of the page outside the forms with these ids: neither one of
\* the form elements nor a field inside one
OutsideForms(ids) ==
    Nodes \ UNION {FormAndFields(FormById(id).node) : id \in ids}

\* C32: an apply, its rollback after a failed persistence write included,
\* writes and removes attributes only on the forms it was run on and on their
\* fields: every other element of the page keeps its attributes.
C32_ApplyLeavesOtherFormsAlone ==
    [][hist'.op = "apply" =>
          \A n \in OutsideForms(hist'.forms) : attrs'[n] = attrs[n]]_vars

\* the form element carries the sentinel of an apply
CarriesSentinel(formNode) == Get(attrs[formNode], "data-a11y-validator") = "enabled"

\* C33: once a scan, an apply or a remove has completed, the validation state
\* of a form has the status "applied" exactly when the form element carries
\* the sentinel data-a11y-validator="enabled".
C33_AppliedIffSentinel ==
    \A id \in DOMAIN validationStates :
        validationStates[id].status = "applied" <=> CarriesSentinel(FormById(id).node)

\* the form elements of the page that carry the sentinel of an apply
AnnotatedForms ==
    {n \in {DesignerPage[g].id : g \in FormSet(DesignerPage)} : CarriesSentinel(n)}

\* C34: after an apply or a remove on a site whose only forms are those of the
\* page, the persisted validated-forms count is the number of forms that carry
\* validation; applying again to a validated form does not raise it.
C34_CountIsNumberOfValidatedForms ==
    hist.op \in {"apply", "remove"} => count = Cardinality(AnnotatedForms)

\* C35: an apply whose persistence write failed, and whose annotations were
\* rolled back, counts no form as applied: the validated-forms count is not
\* raised and no form of the run has the status "applied".
C35_RolledBackApplyNotCounted ==
    [][(hist'.op = "apply" /\ hist'.fault.dbw) =>
          /\ count' <= count
          /\ \A id \in hist'.forms : validationStates'[id].status # "applied"]_vars

\* the attribute names a fault-free apply writes on the element of a field
AppliedKeys(field) ==
    {FieldWrites(field, {}, FALSE)[k][1] :
        k \in 1..Len(FieldWrites(field, {}, FALSE))}

\* the form carries the sentinel and each of its fields every attribute of an apply
FullyAnnotated(form) ==
    /\ CarriesSentinel(form.node)
    /\ \A k \in 1..Len(form.fields) :
          FieldNode(form.fields[k]) # "" =>
              AppliedKeys(form.fields[k]) \subseteq DOMAIN attrs[FieldNode(form.fields[k])]

\* neither the form nor any of its fields carries an attribute of an apply
FullyClean(form) ==
    /\ DOMAIN attrs[form.node]
          \cap {"novalidate", "data-a11y-validator", "data-a11y-timestamp"} = {}
    /\ \A k \in 1..Len(form.fields) :
          FieldNode(form.fields[k]) # "" =>
              DOMAIN attrs[FieldNode(form.fields[k])] \cap FieldAnnotationKeys = {}

\* two runs on the same form, the second started while the first was running,
\* have both completed
OverlappedRunsCompleted ==
    /\ Len(tasks) = 2
    /\ tasks[2].during
    /\ tasks[1].form = tasks[2].form
    /\ Completed(tasks[1]) /\ Completed(tasks[2])

\* C36: when an apply and a removal, or two applies, on the same form overlap,
\* the form is fully annotated or fully clean once both have completed.
C36_OverlapLeavesNoMixture ==
    OverlappedRunsCompleted =>
        FullyAnnotated(tasks[1].form) \/ FullyClean(tasks[1].form)

\* the error node the field names with data-error-id exists and is displayed
ErrorNodeDisplayed(el, E) ==
    /\ Has(E, Get(el.attrs, "data-error-id"))
    /\ E[Get(el.attrs, "data-error-id")].display

\* C37: at every moment a field carries aria-invalid="true" exactly when its
\* error node is displayed.
C37_AriaInvalidIffErrorDisplayed ==
    \A f \in RtFields :
        Get(rtDom[f].attrs, "aria-invalid") = "true"
            <=> ErrorNodeDisplayed(rtDom[f], errorEls)

\* C38: two annotated fields of a page whose normalized labels differ carry
\* different data-error-id values after an apply.
C38_DistinctLabelsDistinctErrorIds ==
    labelRun.op = "wire" =>
        (NormalizeLabel(labelRun.fields[1].label) # NormalizeLabel(labelRun.fields[2].label)
         => Get(labelRun.written[1], "data-error-id")
               # Get(labelRun.written[2], "data-error-id"))

\* C39: on a plan whose form limit is -1 the limit counts as unlimited: no
\* apply is ended by the form-limit check, however many forms are selected or
\* validated already.
C39_UnlimitedPlanNeverBlocks ==
    PlanLimit(currentPlan) = MaxFormsAgency => hist.op # "limit"

====
